---------------------------- MODULE Spec2Model ----------------------------
(***************************************************************************)
(* Soul Frame: the vision -> brain seqlock channel, the interaction state  *)
(* machine and interaction model, the brain coordinator's tick, and the    *)
(* audio dispatcher with its mixer.                                        *)
(*                                                                         *)
(* Units: times are milliseconds, distances centimetres, confidences       *)
(* hundredths (60 is 0.6), volumes, intensities and gaze coordinates       *)
(* thousandths.                                                            *)
(*                                                                         *)
(* The module holds several specifications over disjoint groups of         *)
(* variables; each leaves the other groups unchanged:                      *)
(*   SpecSeqlock  VisionShmWriter.write against VisionShmReader.read       *)
(*   SpecFsm      InteractionStateMachine.update called with any arguments *)
(*   SpecBrain    the coordinator's loop: reader result, interaction model,*)
(*                state machine, transition handler, continuous updates    *)
(*   SpecStall    the coordinator's loop on a vision channel that stalls   *)
(*   SpecGallery  the coordinator's loop on every image of the playlist    *)
(*   SpecDistance  InteractionModel._compute_distance_factor on its own    *)
(*   SpecMixBuffer the buffer AudioMixer.mix computes                      *)
(*   SpecRemove    AudioMixer.remove_inactive called twice in a row        *)
(*   SpecShutdown  start() and _shutdown() of the coordinator              *)
(*   SpecDispatch  the audio process fed with any commands                 *)
(*   SpecRace      SET_VOLUME against mix(), attribute access by access    *)
(*   SpecHold      update() with a face that settles at one distance       *)
(*   SpecWithdraw  the brain loop with a stopwatch on the fade-out         *)
(*   SpecPlaylist  ImageManager: scan(), next_image(), prev_image()        *)
(*   SpecTable     update() of the state machine, each call kept           *)
(*   SpecDwell     InteractionModel.update() on its own, each call kept    *)
(*   SpecCycle     the brain loop with idle image cycles                   *)
(*   SpecEpsilon  the coordinator's loop fed with samples that differ by   *)
(*                about the change-detection epsilons                      *)
(*   SpecSystem   the brain loop feeding the audio process: command        *)
(*                thread, mixer, sounddevice callback thread               *)
(*   SpecMixer    AudioMixer called directly, with the callback thread     *)
(*   SpecCallback the mixer and the device callback when mix() may raise   *)
(*   SpecFade     AudioStream.set_fade and the update() calls of mix(), in *)
(*                binary64 floating point                                  *)
(***************************************************************************)
EXTENDS Integers, Sequences, FiniteSets, TLC

(***************************************************************************)
(* Bounds of the model                                                     *)
(***************************************************************************)
\* number of write() calls explored per run of the seqlock
MaxWrites == 3
\* no timer is followed beyond this many milliseconds
MaxTimerMs == 9000
\* largest idle image timer short of a cycle explored in SpecTable (ms)
MaxIdleTimerMs == 2000

\* most subdirectories of the gallery directory explored in SpecPlaylist
MaxSubdirs == 4
\* number of iterations of the brain loop explored per run
MaxTicks == 6
\* number of iterations of the brain loop explored next to the audio process
MaxSysTicks == 3
\* number of iterations of the brain loop explored before the vision channel
\* stalls
MaxStallTicks == 4
\* commands waiting on the audio queue
MaxQueueLen == 3
\* direct calls of the mixer's owner explored per run
MaxMixerCalls == 4
\* update() calls followed after a set_fade
MaxUpdates == 10

(***************************************************************************)
(* Program constants                                                       *)
(***************************************************************************)
\* The seqlock counter and the frame counter are masked with 0xFFFFFFFF, that
\* is, kept modulo 2^32.  TLC's integers end at 2^31 - 1, so the model keeps
\* both counters modulo 2^30: still even, and still far more than the writes
\* of one run, so that a counter wraps only where the code's would.
U32 == 2 ^ 30

\* soulframe/config.py, seconds written as milliseconds, confidences as
\* hundredths
IDLE_IMAGE_CYCLE_MS == 300000
PRESENCE_DISTANCE_CM == 300
CLOSE_INTERACTION_DISTANCE_CM == 80
PRESENCE_LOST_TIMEOUT_MS == 3000
IDLE_FACE_LOST_TIMEOUT_MS == 5000
GAZE_MIN_CONFIDENCE == 60
WITHDRAW_GAZE_AWAY_TIMEOUT_MS == 8000
WITHDRAW_FADE_DURATION_MS == 4000

VARIABLES
    \* ---- shared memory segment (shared/ipc.py) ----
    shm_seq,        \* the 4-byte seqlock counter at offset 0
    shm_payload,    \* the payload words at offset 4
    \* ---- vision loop and VisionShmWriter ----
    frame_counter,  \* run_vision_process's frame_counter
    w_seq,          \* VisionShmWriter._seq
    w_pc,           \* position inside write(): "idle", "pack", "store", "even"
    w_packed,       \* the packed payload being stored
    w_idx,          \* next payload word to store
    w_stored,       \* the payload store of this write() finished
    writes,         \* number of write() calls begun
    w_arg,          \* the data argument of the write() in progress
    \* ---- VisionShmReader ----
    last_frame,     \* VisionShmReader._last_frame (NoFrame is None)
    r_pc,           \* position inside read(): "idle", "copy", "seq2"
    r_seq1,         \* the local seq1
    r_raw,          \* the local copy raw
    r_idx,          \* next payload word to copy
    r_ret,          \* what the most recent read() returned (NoSample is None)
    \* ---- history ----
    committed,      \* payloads stored by completed write() calls
    w_data,         \* the data argument of the latest write() that stored its
                    \* payload and returned
    quiet_reads,    \* read() calls since that write() returned: "none",
                    \* "one", "many"; "straddle" while a read() that began
                    \* before the return is running; "busy" once another
                    \* write() has begun or before any has returned
    skipped,        \* frame counters of the payloads write() stored and a
                    \* later write() replaced before any read() returned them
    r_prev_frame    \* frame counter of the sample returned before r_ret

seqlock_vars == <<shm_seq, shm_payload, frame_counter, w_seq, w_pc, w_packed,
                  w_idx, w_stored, writes, w_arg, last_frame, r_pc, r_seq1,
                  r_raw, r_idx, r_ret, committed, w_data, quiet_reads,
                  skipped,
                  r_prev_frame>>

VARIABLES
    \* ---- InteractionStateMachine (brain/state_machine.py) ----
    fsm,            \* the object's fields, and the on_state_change calls of
                    \* the latest update() in fsm.changes
    \* ---- history ----
    fsm_in          \* the face_data argument of the latest update(), or
                    \* NoInput when the latest call was not an update()

fsm_vars == <<fsm, fsm_in>>

VARIABLES
    \* ---- run_brain (brain/coordinator.py) ----
    interaction,          \* the InteractionModel's fields
    image_index,          \* ImageManager._index, counted from 1
    prev_state,
    last_valid_face,
    since_new_frame,      \* now - last_new_frame_time, as of the latest tick
    last_sent_gaze,       \* (last_sent_gaze_x, last_sent_gaze_y)
    last_sent_volume,
    started_heartbeats,
    last_sent_hb_volumes,
    ambient_started,
    \* ---- history ----
    tick_in,              \* face_data, dt and the interaction result of the
                          \* latest tick
    tick_audio,           \* what the latest tick put on the audio queue
    tick_display,         \* what the latest tick put on the display queue
    hb_play_age,          \* per region: time since its latest PLAY_HEARTBEAT
                          \* was put (-1: none yet), followed up to MaxTimerMs
    hb_plays,             \* per region: PLAY_HEARTBEATs put since the region
                          \* became dwelled, counted up to 2
    withdrew_from,        \* the state WITHDRAWING was last entered from
    sent_gaze,            \* the gaze of the latest gaze-driven SET_PARALLAX
                          \* put (<<>>: none yet)
    sent_volume,          \* per stream name: the volume of the latest
                          \* SET_VOLUME put for the stream now under that
                          \* name (no entry: none yet)
    ambient_played,       \* a PLAY_AMBIENT was put since the state machine
                          \* last left IDLE
    ticks                 \* iterations of the loop so far

brain_vars == <<interaction, image_index, prev_state, last_valid_face,
                since_new_frame, last_sent_gaze, last_sent_volume,
                started_heartbeats, last_sent_hb_volumes, ambient_started,
                tick_in, tick_audio, tick_display, hb_play_age, hb_plays,
                withdrew_from, sent_gaze, sent_volume, ambient_played, ticks>>

VARIABLES
    \* ---- run_audio_process (audio/process.py) ----
    audio_q,        \* cmd_queue, the brain's audio_q
    streams,        \* the AudioStream objects: object id -> fields
    mixer_streams,  \* AudioMixer._streams: name -> object id
    mutex,          \* AudioMixer._lock: "none", or "callback" during mix()
    cmd_pc,         \* position of the command thread in its loop
    cmd_cur,        \* the command _handle_command is handling
    cmd_obj,        \* the stream object _handle_command holds
    cb_pc,          \* position of the callback thread: "idle", "mixing"
    \* ---- history ----
    cmd_wrote,      \* whether the latest step was the command thread writing
                    \* the volume / fade fields of a stream the mixer holds,
                    \* and whether it held the mixer lock while writing
    fade_out_asked, \* the objects whose latest volume / fade call was a
                    \* fade to 0
    mixer_calls     \* the direct calls the mixer's owner made in SpecMixer

audio_vars == <<audio_q, streams, mixer_streams, mutex, cmd_pc, cmd_cur,
                cmd_obj, cb_pc, cmd_wrote, fade_out_asked, mixer_calls>>

VARIABLES
    \* ---- the vision process, as the brain's reader sees it ----
    stalled         \* TRUE once the vision channel brings no new sample any
                    \* more

stall_vars == <<stalled>>

VARIABLES
    \* ---- functions called on their own ----
    calls           \* the arguments and the result of the latest calls of
                    \* the function under check, oldest first

call_vars == <<calls>>

VARIABLES
    coord           \* start() of the coordinator: where it is, the queues it
                    \* made, the child processes, and what it did to them

coord_vars == <<coord>>

VARIABLES
    tmp             \* the value each audio thread holds between reading a
                    \* stream field and writing one (SpecRace)

thread_vars == <<tmp>>

VARIABLES
    image_mgr       \* an ImageManager on its own (SpecPlaylist): _images,
                    \* _image_dirs, _index counted from 0 as in the code, and
                    \* the latest calls with what they returned

gallery_vars == <<image_mgr>>

VARIABLES
    \* ---- _audio_callback (audio/process.py) ----
    outdata,        \* the device buffer of the latest callback: "stale"
                    \* (not written by the callback), "mixed" or "silence"
    \* ---- history ----
    cb_result       \* whether mix() raised in the latest callback, and
                    \* whether the exception left the callback

callback_vars == <<outdata, cb_result>>

VARIABLES
    \* ---- one AudioStream under set_fade and update (audio_stream.py) ----
    fstream,        \* _volume, _fade_target, _fade_rate, _fading as floats
    \* ---- history ----
    fade_req,       \* the arguments of the set_fade call
    fade_elapsed,   \* the sum of the dt of the update calls since, exact
    fade_updates    \* the number of update calls since

fade_vars == <<fstream, fade_req, fade_elapsed, fade_updates>>

vars == <<seqlock_vars, fsm_vars, brain_vars, stall_vars, call_vars, coord_vars, thread_vars, gallery_vars,
         audio_vars,
         callback_vars, fade_vars>>

\* what each specification leaves alone
NotSeqlock ==
    UNCHANGED <<fsm_vars, brain_vars, stall_vars, call_vars, coord_vars, thread_vars, gallery_vars, audio_vars, callback_vars,
                fade_vars>>
NotFsm ==
    UNCHANGED <<seqlock_vars, brain_vars, stall_vars, call_vars, coord_vars, thread_vars, gallery_vars, audio_vars,
                callback_vars, fade_vars>>
NotBrain ==
    UNCHANGED <<seqlock_vars, stall_vars, call_vars, coord_vars, thread_vars, gallery_vars, audio_vars, callback_vars, fade_vars>>
NotAudio ==
    UNCHANGED <<seqlock_vars, fsm_vars, brain_vars, stall_vars, call_vars, coord_vars, thread_vars, gallery_vars, fade_vars>>
NotFade ==
    UNCHANGED <<seqlock_vars, fsm_vars, brain_vars, stall_vars, call_vars, coord_vars, thread_vars, gallery_vars, audio_vars,
                callback_vars>>
NotGallery ==
    UNCHANGED <<seqlock_vars, fsm_vars, brain_vars, stall_vars, call_vars, coord_vars, thread_vars, audio_vars,
                callback_vars, fade_vars>>
(***************************************************************************)
(* shared/ipc.py: the payload                                              *)
(***************************************************************************)
NoFrame == -1
NoSample == <<>>

\* The payload is copied word by word (a 40-byte memcpy is not atomic).  The
\* model keeps three of the nine fields: frame counter, number of faces and
\* face distance; the other six are stored and copied the same way.
PayloadWords == 1 .. 3

\* FaceData as the vision loop builds it (vision/process.py): a zero-face
\* sample, or a face at the distance the estimator returned.  Here the
\* distance is counted in units of 2^-20 cm, so that the model holds doubles
\* that are no binary32 value: 70 cm, 130 cm, and 357913941 / 2^20 cm (a
\* little more than 341.333333 cm).
FaceInputs == { [num_faces |-> 0, face_distance_cm |-> 0],
                [num_faces |-> 1, face_distance_cm |-> 70 * 2 ^ 20],
                [num_faces |-> 1, face_distance_cm |-> 130 * 2 ^ 20],
                [num_faces |-> 1, face_distance_cm |-> 357913941] }

\* the number of binary digits of n
RECURSIVE BitLen(_)
BitLen(n) == IF n = 0 THEN 0 ELSE 1 + BitLen(n \div 2)

\* struct.pack("f", x): the nearest binary32 value, which has 24 significant
\* bits; ties go to the even one
PackF32(x) ==
    IF BitLen(x) <= 24 THEN x
    ELSE LET ulp == 2 ^ (BitLen(x) - 24)
             down == (x \div ulp) * ulp
             rest == x - down
         IN  IF 2 * rest < ulp THEN down
             ELSE IF 2 * rest > ulp THEN down + ulp
             ELSE IF (x \div ulp) % 2 = 0 THEN down
             ELSE down + ulp

\* struct.pack(_STRUCT_FMT, ...): the counter and the number of faces are
\* u32 fields, the distance is an f32 field
Pack(fc, d) == <<fc, d.num_faces, PackF32(d.face_distance_cm)>>

\* struct.unpack(_STRUCT_FMT, raw) and the FaceData built from it
Unpack(raw) == [frame_counter |-> raw[1], num_faces |-> raw[2],
                face_distance_cm |-> raw[3]]

\* a fresh POSIX shared memory segment is zero-filled
ZeroPayload == <<0, 0, 0>>

(***************************************************************************)
(* The seqlock starts either right after VisionShmWriter.__init__, or      *)
(* 2^32 - 2 frames into a run, where the 32-bit frame counter is about to  *)
(* wrap: the reader has then returned the latest frame.                    *)
(***************************************************************************)
FrameStarts == {0, U32 - 2}

SeqlockInit(f0) ==
        /\ frame_counter = f0
        /\ w_seq = (2 * f0) % U32
        /\ shm_seq = (2 * f0) % U32
        /\ shm_payload = IF f0 = 0 THEN ZeroPayload ELSE <<f0, 0, 0>>
        /\ committed = IF f0 = 0 THEN {} ELSE {<<f0, 0, 0>>}
        /\ last_frame = IF f0 = 0 THEN NoFrame ELSE f0
        /\ r_prev_frame = IF f0 = 0 THEN NoFrame ELSE f0 - 1
        /\ r_ret = IF f0 = 0 THEN NoSample ELSE Unpack(<<f0, 0, 0>>)
        /\ w_pc = "idle"
        /\ w_packed = ZeroPayload
        /\ w_idx = 1
        /\ w_stored = FALSE
        /\ writes = 0
        /\ w_arg = NoSample
        /\ w_data = IF f0 = 0 THEN NoSample
                    ELSE [frame_counter |-> f0, num_faces |-> 0,
                          face_distance_cm |-> 0]
        /\ quiet_reads = IF f0 = 0 THEN "busy" ELSE "one"
        /\ skipped = {}
        /\ r_pc = "idle"
        /\ r_seq1 = 0
        /\ r_raw = ZeroPayload
        /\ r_idx = 1

(***************************************************************************)
(* VisionShmWriter.write, called from the vision loop                      *)
(***************************************************************************)
quiet_vars == <<w_data, quiet_reads, skipped>>
writer_vars == <<frame_counter, w_seq, w_pc, w_packed, w_idx, w_stored, writes,
                 w_arg>>
reader_vars == <<last_frame, r_pc, r_seq1, r_raw, r_idx, r_ret, r_prev_frame>>

\* the counter values write() stores: odd on entry, even in the finally clause
NextSeq(seq) == (seq + 1) % U32

\* vision loop: frame_counter = (frame_counter + 1) & 0xFFFFFFFF, then
\* write(): the counter goes odd
WriteBegin ==
    /\ NotSeqlock
    /\ w_pc = "idle"
    /\ writes < MaxWrites
    /\ \E d \in FaceInputs :
        /\ w_packed' = Pack((frame_counter + 1) % U32, d)
        /\ w_arg' = [frame_counter |-> (frame_counter + 1) % U32,
                     num_faces |-> d.num_faces,
                     face_distance_cm |-> d.face_distance_cm]
    /\ quiet_reads' = "busy"
    /\ UNCHANGED <<w_data, skipped>>
    /\ frame_counter' = (frame_counter + 1) % U32
    /\ w_seq' = NextSeq(w_seq)
    /\ shm_seq' = NextSeq(w_seq)
    /\ w_pc' = "pack"
    /\ w_idx' = 1
    /\ w_stored' = FALSE
    /\ writes' = writes + 1
    /\ UNCHANGED <<shm_payload, committed, reader_vars>>

\* struct.pack succeeds: go on to store the bytes
WritePackOk ==
    /\ NotSeqlock
    /\ w_pc = "pack"
    /\ w_pc' = "store"
    /\ UNCHANGED <<shm_seq, shm_payload, frame_counter, w_seq, w_packed,
                   w_idx, w_stored, writes, w_arg, committed, reader_vars,
                   quiet_vars>>

\* struct.pack raises and write() has no finally clause: the call ends with
\* the counter as it is
WritePackFailNoFinally ==
    /\ NotSeqlock
    /\ w_pc = "pack"
    /\ w_pc' = "idle"
    /\ UNCHANGED <<shm_seq, shm_payload, frame_counter, w_seq, w_packed,
                   w_idx, w_stored, writes, w_arg, committed, reader_vars,
                   quiet_vars>>

\* struct.pack raises: the finally clause still runs, the payload is untouched
WritePackFail ==
    /\ NotSeqlock
    /\ w_pc = "pack"
    /\ w_pc' = "even"
    /\ UNCHANGED <<shm_seq, shm_payload, frame_counter, w_seq, w_packed,
                   w_idx, w_stored, writes, w_arg, committed, reader_vars,
                   quiet_vars>>

\* self._shm.buf[_SEQ_SIZE:_TOTAL_SHM_SIZE] = packed, one word at a time
WriteStore ==
    /\ NotSeqlock
    /\ w_pc = "store"
    /\ shm_payload' = [shm_payload EXCEPT ![w_idx] = w_packed[w_idx]]
    /\ w_idx' = w_idx + 1
    /\ w_stored' = (w_idx = Len(w_packed))
    /\ w_pc' = IF w_idx = Len(w_packed) THEN "even" ELSE "store"
    /\ UNCHANGED <<shm_seq, frame_counter, w_seq, w_packed, writes, w_arg,
                   committed, reader_vars, quiet_vars>>

\* finally: the counter goes even; the write() call is complete
WriteEnd ==
    /\ NotSeqlock
    /\ w_pc = "even"
    /\ w_seq' = NextSeq(w_seq)
    /\ shm_seq' = NextSeq(w_seq)
    /\ w_pc' = "idle"
    /\ committed' = IF w_stored THEN committed \cup {shm_payload} ELSE committed
    \* the locals of write() end with the call
    /\ w_packed' = ZeroPayload
    /\ w_idx' = 1
    /\ w_stored' = FALSE
    /\ w_arg' = NoSample
    /\ w_data' = IF w_stored THEN w_arg ELSE w_data
    /\ skipped' = IF w_stored /\ w_data # NoSample
                      /\ last_frame # w_data.frame_counter
                  THEN skipped \cup {w_data.frame_counter} ELSE skipped
    /\ quiet_reads' = IF ~w_stored THEN "busy"
                      ELSE IF r_pc = "idle" THEN "none"
                      ELSE "straddle"
    /\ UNCHANGED <<shm_payload, frame_counter, writes, reader_vars>>

(***************************************************************************)
(* VisionShmReader.read                                                    *)
(***************************************************************************)
\* a reader that does not look at the counter's parity
WriterBusyNever(seq1) == FALSE
\* if seq1 & 1: the writer is mid-update
WriterBusy(seq1) == seq1 % 2 = 1

\* a reader that compares no counters
TornReadUnchecked(seq1, seq2) == FALSE

\* if seq1 != seq2: the data was modified during the copy
TornRead(seq1, seq2) == seq1 # seq2

\* a reader that never drops a frame it has returned
SameFrameUnchecked(fc, last) == FALSE

\* if self._last_frame is not None and frame_counter == self._last_frame
SameFrame(fc, last) == last # NoFrame /\ fc = last

\* seq1 = struct.unpack_from(_SEQ_FMT, buf, 0)[0]; return None when odd
ReadSeq1 ==
    /\ NotSeqlock
    /\ r_pc = "idle"
    /\ IF WriterBusy(shm_seq)
       THEN /\ r_ret' = NoSample
            /\ UNCHANGED <<r_pc, r_seq1, r_idx>>
       ELSE /\ r_pc' = "copy"
            /\ r_seq1' = shm_seq
            /\ r_idx' = 1
            /\ UNCHANGED r_ret
    /\ UNCHANGED <<shm_seq, shm_payload, writer_vars, committed, last_frame,
                   r_raw, r_prev_frame, quiet_vars>>

\* raw = bytes(self._shm.buf[_SEQ_SIZE:_TOTAL_SHM_SIZE]), one word at a time
ReadCopy ==
    /\ NotSeqlock
    /\ r_pc = "copy"
    /\ r_raw' = [r_raw EXCEPT ![r_idx] = shm_payload[r_idx]]
    /\ r_idx' = r_idx + 1
    /\ r_pc' = IF r_idx = Len(r_raw) THEN "seq2" ELSE "copy"
    /\ UNCHANGED <<shm_seq, shm_payload, writer_vars, committed, last_frame,
                   r_seq1, r_ret, r_prev_frame, quiet_vars>>

\* seq2 = ...; the torn-read test, the same-frame test, and the return
ReadSeq2 ==
    /\ NotSeqlock
    /\ r_pc = "seq2"
    /\ r_pc' = "idle"
    /\ IF TornRead(r_seq1, shm_seq) \/ SameFrame(r_raw[1], last_frame)
       THEN /\ r_ret' = NoSample
            /\ UNCHANGED <<last_frame, r_prev_frame>>
       ELSE /\ last_frame' = r_raw[1]
            /\ r_ret' = Unpack(r_raw)
            /\ r_prev_frame' = last_frame
    \* the locals of read() end with the call
    /\ r_seq1' = 0
    /\ r_raw' = ZeroPayload
    /\ r_idx' = 1
    /\ quiet_reads' = CASE quiet_reads = "straddle" -> "none"
                        [] quiet_reads = "none" -> "one"
                        [] quiet_reads = "one" -> "many"
                        [] OTHER -> quiet_reads
    /\ UNCHANGED <<shm_seq, shm_payload, writer_vars, committed, w_data,
                   skipped>>

NextSeqlock ==
    \/ WriteBegin
    \/ WritePackOk
    \/ WritePackFail
    \/ WriteStore
    \/ WriteEnd
    \/ ReadSeq1
    \/ ReadCopy
    \/ ReadSeq2

(***************************************************************************)
(* brain/state_machine.py: InteractionStateMachine                         *)
(***************************************************************************)
States == {"IDLE", "PRESENCE", "ENGAGED", "CLOSE_INTERACTION", "WITHDRAWING"}

\* float("inf"), the distance update() uses when no face is detected
InfDistance == 1000000

Min(a, b) == IF a <= b THEN a ELSE b
Max(a, b) == IF a >= b THEN a ELSE b

\* __init__
FsmNew == [ state |-> "IDLE",
            face_lost_timer |-> 0,
            gaze_away_timer |-> 0,
            withdraw_timer |-> 0,
            idle_image_timer |-> 0,
            should_cycle_image |-> FALSE,
            presence_distance_cm |-> PRESENCE_DISTANCE_CM,
            close_distance_cm |-> CLOSE_INTERACTION_DISTANCE_CM,
            withdraw_duration_ms |-> WITHDRAW_FADE_DURATION_MS,
            changes |-> <<>> ]

\* set_distance_thresholds
SetDistanceThresholds(f, presence_cm, close_cm) ==
    [f EXCEPT !.presence_distance_cm = presence_cm,
              !.close_distance_cm = close_cm]

\* set_withdraw_duration: max(0.1, duration_s)
\* a withdraw duration that ignores the image
SetWithdrawDurationFloor(f, duration_ms) ==
    [f EXCEPT !.withdraw_duration_ms = Max(100, 0)]

SetWithdrawDuration(f, duration_ms) ==
    [f EXCEPT !.withdraw_duration_ms = Max(100, duration_ms)]

\* a _set_state that resets gaze_away_timer on every entry into ENGAGED
SetStateResetAlways(f, new_state) ==
    IF f.state = new_state THEN f
    ELSE LET g == [f EXCEPT !.state = new_state,
                            !.should_cycle_image = FALSE,
                            !.changes = Append(@, <<f.state, new_state>>)]
         IN  IF new_state = "IDLE"
                 THEN [g EXCEPT !.idle_image_timer = 0]
             ELSE IF new_state = "ENGAGED"
                 THEN [g EXCEPT !.gaze_away_timer = 0]
             ELSE IF new_state = "WITHDRAWING"
                 THEN [g EXCEPT !.withdraw_timer = 0]
             ELSE g

\* a _set_state that leaves the cycle flag as it is
SetStateKeepFlag(f, new_state) ==
    IF f.state = new_state THEN f
    ELSE LET g == [f EXCEPT !.state = new_state,
                            !.changes = Append(@, <<f.state, new_state>>)]
         IN  IF new_state = "IDLE"
                 THEN [g EXCEPT !.idle_image_timer = 0]
             ELSE IF new_state = "ENGAGED" /\ f.state # "CLOSE_INTERACTION"
                 THEN [g EXCEPT !.gaze_away_timer = 0]
             ELSE IF new_state = "WITHDRAWING"
                 THEN [g EXCEPT !.withdraw_timer = 0]
             ELSE g

\* _set_state
SetState(f, new_state) ==
    IF f.state = new_state THEN f
    ELSE LET g == [f EXCEPT !.state = new_state,
                            !.should_cycle_image = FALSE,
                            !.changes = Append(@, <<f.state, new_state>>)]
         IN  IF new_state = "IDLE"
                 THEN [g EXCEPT !.idle_image_timer = 0]
             ELSE IF new_state = "ENGAGED" /\ f.state # "CLOSE_INTERACTION"
                 THEN [g EXCEPT !.gaze_away_timer = 0]
             ELSE IF new_state = "WITHDRAWING"
                 THEN [g EXCEPT !.withdraw_timer = 0]
             ELSE g

\* an IDLE state that never notices a visitor
UpdateIdleDeaf(f, face_detected, distance_cm, dt) ==
    [f EXCEPT !.should_cycle_image = FALSE, !.idle_image_timer = @ + dt]
\* _update_idle
UpdateIdle(f, face_detected, distance_cm, dt) ==
    IF face_detected /\ distance_cm < f.presence_distance_cm
    THEN SetState(f, "PRESENCE")
    ELSE IF f.idle_image_timer + dt >= IDLE_IMAGE_CYCLE_MS
         THEN [f EXCEPT !.should_cycle_image = TRUE, !.idle_image_timer = 0]
         ELSE [f EXCEPT !.should_cycle_image = FALSE,
                        !.idle_image_timer = @ + dt]

\* _update_presence with the dwell test ahead of the distance test
UpdatePresenceDwellFirst(f, face_detected, distance_cm, dwell_regions) ==
    IF f.face_lost_timer >= PRESENCE_LOST_TIMEOUT_MS
        THEN SetState(f, "WITHDRAWING")
    ELSE IF dwell_regions # {}
        THEN SetState(f, "ENGAGED")
    ELSE IF face_detected /\ distance_cm >= f.presence_distance_cm
        THEN SetState(f, "WITHDRAWING")
    ELSE f

\* _update_presence
UpdatePresence(f, face_detected, distance_cm, dwell_regions) ==
    IF f.face_lost_timer >= PRESENCE_LOST_TIMEOUT_MS
        THEN SetState(f, "WITHDRAWING")
    ELSE IF face_detected /\ distance_cm >= f.presence_distance_cm
        THEN SetState(f, "WITHDRAWING")
    ELSE IF dwell_regions # {}
        THEN SetState(f, "ENGAGED")
    ELSE f

\* _update_engaged with the return statements after _set_state left out
UpdateEngagedFallThrough(f, face_detected, distance_cm) ==
    LET f1 == IF f.face_lost_timer >= IDLE_FACE_LOST_TIMEOUT_MS
              THEN SetState(f, "WITHDRAWING") ELSE f
        f2 == IF face_detected /\ distance_cm < f1.close_distance_cm
              THEN SetState(f1, "CLOSE_INTERACTION") ELSE f1
    IN  IF f2.gaze_away_timer >= WITHDRAW_GAZE_AWAY_TIMEOUT_MS
        THEN SetState(f2, "WITHDRAWING") ELSE f2

\* _update_engaged
UpdateEngaged(f, face_detected, distance_cm) ==
    IF f.face_lost_timer >= IDLE_FACE_LOST_TIMEOUT_MS
        THEN SetState(f, "WITHDRAWING")
    ELSE IF face_detected /\ distance_cm < f.close_distance_cm
        THEN SetState(f, "CLOSE_INTERACTION")
    ELSE IF f.gaze_away_timer >= WITHDRAW_GAZE_AWAY_TIMEOUT_MS
        THEN SetState(f, "WITHDRAWING")
    ELSE f

\* a hysteresis of half the close distance
Hysteresis2Below(f) == Min(f.close_distance_cm, 2 * f.presence_distance_cm)

\* hysteresis_cm = min(close * 1.5, presence), doubled to stay in the integers
Hysteresis2Wrong(f) == Min(2 * f.close_distance_cm, 2 * f.presence_distance_cm)

Hysteresis2(f) == Min(3 * f.close_distance_cm, 2 * f.presence_distance_cm)

\* _update_close_interaction
UpdateCloseInteraction(f, face_detected, distance_cm) ==
    IF f.face_lost_timer >= IDLE_FACE_LOST_TIMEOUT_MS
        THEN SetState(f, "WITHDRAWING")
    ELSE IF f.gaze_away_timer >= WITHDRAW_GAZE_AWAY_TIMEOUT_MS
        THEN SetState(f, "WITHDRAWING")
    ELSE IF face_detected /\ 2 * distance_cm > Hysteresis2(f)
        THEN SetState(f, "ENGAGED")
    ELSE f

\* _update_withdrawing with > in the place of >=
UpdateWithdrawingLate(f, dt) ==
    LET g == [f EXCEPT !.withdraw_timer = @ + dt]
    IN  IF g.withdraw_timer > g.withdraw_duration_ms
        THEN SetState(g, "IDLE") ELSE g

\* _update_withdrawing
UpdateWithdrawing(f, dt) ==
    LET g == [f EXCEPT !.withdraw_timer = @ + dt]
    IN  IF g.withdraw_timer >= g.withdraw_duration_ms
        THEN SetState(g, "IDLE") ELSE g

\* update(face_data, active_regions, dt, dwell_regions, min_active_confidence)
FsmUpdate(f, face_data, active_regions, dt, dwell_regions, min_active_confidence) ==
    LET face_detected == face_data.num_faces > 0
        distance_cm == IF face_detected THEN face_data.face_distance_cm
                       ELSE InfDistance
        gaze_confidence == IF face_detected THEN face_data.gaze_confidence
                           ELSE 0
        f0 == [f EXCEPT !.changes = <<>>]
        f1 == [f0 EXCEPT !.face_lost_timer =
                            IF face_detected THEN 0 ELSE @ + dt]
        gaze_threshold ==
            IF f.state \in {"ENGAGED", "CLOSE_INTERACTION"}
               /\ min_active_confidence > 0
            THEN min_active_confidence ELSE GAZE_MIN_CONFIDENCE
        f2 == [f1 EXCEPT !.gaze_away_timer =
                            IF active_regions # {}
                               /\ gaze_confidence >= gaze_threshold
                            THEN 0 ELSE @ + dt]
    IN  CASE f.state = "IDLE" -> UpdateIdle(f2, face_detected, distance_cm, dt)
          [] f.state = "PRESENCE" ->
                UpdatePresence(f2, face_detected, distance_cm, dwell_regions)
          [] f.state = "ENGAGED" ->
                UpdateEngaged(f2, face_detected, distance_cm)
          [] f.state = "CLOSE_INTERACTION" ->
                UpdateCloseInteraction(f2, face_detected, distance_cm)
          [] f.state = "WITHDRAWING" -> UpdateWithdrawing(f2, dt)

\* the timers stay inside the model's bound
TimersBounded(f) ==
    /\ f.face_lost_timer <= MaxTimerMs
    /\ f.gaze_away_timer <= MaxTimerMs
    /\ f.withdraw_timer <= MaxTimerMs
    /\ f.idle_image_timer <= MaxTimerMs

(***************************************************************************)
(* SpecFsm: the state machine alone, update() called with any arguments    *)
(***************************************************************************)
\* tick lengths: the loop is paced at 33 ms but dt is whatever elapsed
DtChoices == {1000, 2000}

RegionIds == {"r1", "r2"}

\* per-image thresholds (presence_cm, close_cm, withdraw duration in ms) that
\* _apply_image_thresholds may set
ThresholdChoices == { <<300, 80, 2000>>, <<100, 80, 4000>>, <<300, 250, 2000>> }

FsmDistances == {70, 100, 120, 121, 301}
FsmConfidences == {50, 90}

FsmFaces ==
    {[num_faces |-> 0, face_distance_cm |-> 0, gaze_confidence |-> 0]}
    \cup [num_faces : {1}, face_distance_cm : FsmDistances,
          gaze_confidence : FsmConfidences]

NoInput == [none |-> TRUE]

FsmInit ==
    /\ fsm = FsmNew
    /\ fsm_in = NoInput

\* what InteractionModel.update can report together: no region under the
\* gaze; r1 under the gaze and not dwelled; r1 dwelled, with its
\* min_confidence (which may be 0) as min_active_confidence
FsmRegionInputs ==
    { [active_regions |-> {}, dwell_regions |-> {},
       min_active_confidence |-> 0],
      [active_regions |-> {"r1"}, dwell_regions |-> {},
       min_active_confidence |-> 0],
      [active_regions |-> {"r1"}, dwell_regions |-> {"r1"},
       min_active_confidence |-> 0],
      [active_regions |-> {"r1"}, dwell_regions |-> {"r1"},
       min_active_confidence |-> 50] }

\* _apply_image_thresholds on the state machine: run_brain calls it before
\* the loop and when it cycles the image, which it does in IDLE
FsmSetThresholds ==
    /\ NotFsm
    /\ fsm.state = "IDLE"
    /\ \E t \in ThresholdChoices :
        fsm' = SetWithdrawDuration(SetDistanceThresholds(fsm, t[1], t[2]), t[3])
    /\ fsm_in' = NoInput

\* one update() call
FsmTick ==
    /\ NotFsm
    /\ \E face \in FsmFaces, r \in FsmRegionInputs, dt \in DtChoices :
        /\ fsm' = FsmUpdate(fsm, face, r.active_regions, dt, r.dwell_regions,
                            r.min_active_confidence)
        /\ fsm_in' = [num_faces |-> face.num_faces,
                      face_distance_cm |-> face.face_distance_cm]
    /\ TimersBounded(fsm')

NextFsm ==
    \/ FsmSetThresholds
    \/ FsmTick

(***************************************************************************)
(* SpecHold: update() called with any arguments until, at some call, the   *)
(* face settles at one distance; from then on every call has a face at     *)
(* that distance, and the changes between ENGAGED and CLOSE_INTERACTION    *)
(* are counted.                                                            *)
(***************************************************************************)
\* presence and close distance, the last pair with C_cm > P_cm
HoldThresholds == { <<300, 80>>, <<100, 80>>, <<100, 100>>, <<100, 250>> }

HoldDistances == {70, 90, 120, 260}

HoldDts == {2000}

HoldFaces ==
    {[num_faces |-> 0, face_distance_cm |-> 0, gaze_confidence |-> 0]}
    \cup [num_faces : {1}, face_distance_cm : HoldDistances,
          gaze_confidence : FsmConfidences]

\* set_distance_thresholds, before the first visitor
HoldSetThresholds ==
    /\ NotFsm
    /\ fsm = FsmNew
    /\ calls = <<>>
    /\ \E t \in HoldThresholds : fsm' = SetDistanceThresholds(fsm, t[1], t[2])
    /\ fsm' # fsm
    /\ fsm_in' = NoInput

\* one update() call while the face still moves
HoldFreeTick ==
    /\ NotFsm
    /\ calls = <<>>
    /\ \E face \in HoldFaces, r \in FsmRegionInputs, dt \in HoldDts :
        fsm' = FsmUpdate(fsm, face, r.active_regions, dt, r.dwell_regions,
                         r.min_active_confidence)
    /\ TimersBounded(fsm')
    /\ fsm_in' = NoInput

\* the face settles: from now on it is at distance d
HoldBegin ==
    /\ UNCHANGED <<seqlock_vars, fsm_vars, brain_vars, stall_vars, coord_vars,
                   thread_vars, gallery_vars, audio_vars, callback_vars, fade_vars>>
    /\ calls = <<>>
    /\ \E d \in HoldDistances :
        calls' = << [ distance_cm |-> d, to_close |-> 0, to_engaged |-> 0,
                      flips |-> 0, in_close |-> 0 ] >>

\* one update() call with the face at the settled distance
HoldTick ==
    /\ UNCHANGED <<seqlock_vars, brain_vars, stall_vars, coord_vars,
                   thread_vars, gallery_vars, audio_vars, callback_vars, fade_vars>>
    /\ calls # <<>>
    /\ \E c \in FsmConfidences, r \in FsmRegionInputs, dt \in HoldDts :
        fsm' = FsmUpdate(fsm,
                         [num_faces |-> 1,
                          face_distance_cm |-> calls[1].distance_cm,
                          gaze_confidence |-> c],
                         r.active_regions, dt, r.dwell_regions,
                         r.min_active_confidence)
    /\ TimersBounded(fsm')
    /\ fsm_in' = NoInput
    /\ calls' =
          << [ distance_cm |-> calls[1].distance_cm,
               \* ENGAGED -> CLOSE_INTERACTION changes so far, up to 2
               to_close |->
                  IF fsm.state = "ENGAGED" /\ fsm'.state = "CLOSE_INTERACTION"
                  THEN Min(2, calls[1].to_close + 1) ELSE calls[1].to_close,
               \* entries into ENGAGED after such a change, up to 2
               to_engaged |->
                  IF /\ calls[1].to_close > 0
                     /\ fsm.state # "ENGAGED" /\ fsm'.state = "ENGAGED"
                  THEN Min(2, calls[1].to_engaged + 1)
                  ELSE calls[1].to_engaged,
               \* changes between ENGAGED and CLOSE_INTERACTION in a row, with
               \* no other state in between, up to 2
               flips |->
                  IF {fsm.state, fsm'.state} = {"ENGAGED", "CLOSE_INTERACTION"}
                  THEN Min(2, calls[1].flips + 1)
                  ELSE IF fsm'.state \in {"ENGAGED", "CLOSE_INTERACTION"}
                       THEN calls[1].flips ELSE 0,
               \* calls in a row that ended in CLOSE_INTERACTION, up to 2
               in_close |->
                  IF fsm'.state = "CLOSE_INTERACTION"
                  THEN Min(2, calls[1].in_close + 1) ELSE 0 ] >>

NextHold ==
    \/ HoldSetThresholds
    \/ HoldFreeTick
    \/ HoldBegin
    \/ HoldTick

(***************************************************************************)
(* SpecTable: update() called with any arguments, the call kept: the       *)
(* object before it, the arguments, the object after it                    *)
(***************************************************************************)
\* tick lengths: two seconds, and one as long as the idle image cycle
TableDts == {2000, IDLE_IMAGE_CYCLE_MS}

TableTick ==
    /\ UNCHANGED <<seqlock_vars, brain_vars, stall_vars, coord_vars,
                   thread_vars, gallery_vars, audio_vars, callback_vars, fade_vars>>
    /\ \E face \in FsmFaces, r \in FsmRegionInputs, dt \in TableDts :
        /\ fsm' = FsmUpdate(fsm, face, r.active_regions, dt, r.dwell_regions,
                            r.min_active_confidence)
        /\ calls' = << [ before |-> [fsm EXCEPT !.changes = <<>>],
                         face_data |-> face,
                         active_regions |-> r.active_regions, dt |-> dt,
                         dwell_regions |-> r.dwell_regions,
                         min_active_confidence |-> r.min_active_confidence,
                         after |-> fsm' ] >>
    /\ TimersBounded(fsm')
    /\ fsm'.idle_image_timer <= MaxIdleTimerMs
    /\ UNCHANGED fsm_in

NextTable ==
    \/ FsmSetThresholds
    \/ TableTick
(***************************************************************************)
(* shared/geometry.py                                                      *)
(***************************************************************************)
Abs(x) == IF x < 0 THEN 0 - x ELSE x

\* one edge of the ray casting:
\*   ((yi > py) != (yj > py)) and (px < (xj - xi) * (py - yi) / (yj - yi) + xi)
\* with the division by (yj - yi) multiplied out
EdgeCrossed(px, py, pi, pj) ==
    /\ (pi[2] > py) # (pj[2] > py)
    /\ IF pj[2] - pi[2] > 0
       THEN (px - pi[1]) * (pj[2] - pi[2]) < (pj[1] - pi[1]) * (py - pi[2])
       ELSE (px - pi[1]) * (pj[2] - pi[2]) > (pj[1] - pi[1]) * (py - pi[2])

\* point_in_polygon: inside flips once per crossed edge
PointInPolygon(px, py, polygon) ==
    LET n == Len(polygon)
        crossed == { i \in 1 .. n :
                       EdgeCrossed(px, py, polygon[i],
                                   polygon[IF i = 1 THEN n ELSE i - 1]) }
    IN  IF n < 3 THEN FALSE ELSE Cardinality(crossed) % 2 = 1

\* region_hit_test
RegionHitTest(gaze_x, gaze_y, points_normalized) ==
    PointInPolygon(gaze_x, gaze_y, points_normalized)

(***************************************************************************)
(* audio/curves.py, volumes in thousandths                                 *)
(***************************************************************************)
CurveNames == {"linear", "ease_in", "ease_out", "ease_in_out", "smoothstep"}

\* t = (distance_cm - min_dist) / (max_dist - min_dist), in thousandths
CurveT(distance_cm, max_dist, min_dist) ==
    (1000 * (distance_cm - min_dist)) \div (max_dist - min_dist)

\* linear_curve, ease_in_curve, ease_out_curve, ease_in_out_curve.  The
\* exponential curve needs exp() and is not modelled: the model's images
\* name the other curves.
Curve(name, distance_cm, max_dist, min_dist) ==
    LET t == CurveT(distance_cm, max_dist, min_dist)
        v == CASE name = "linear" -> 1000 - t
               [] name = "ease_in" -> 1000 - (t * t) \div 1000
               [] name = "ease_out" -> ((1000 - t) * (1000 - t)) \div 1000
               [] OTHER ->
                    1000 - (((t * t) \div 1000) * (3000 - 2 * t)) \div 1000
    IN  IF max_dist <= min_dist
            THEN (IF distance_cm <= min_dist THEN 1000 ELSE 0)
        ELSE IF distance_cm <= min_dist THEN 1000
        ELSE IF distance_cm >= max_dist THEN 0
        ELSE Max(0, Min(1000, v))

(***************************************************************************)
(* The gallery: image metadata as brain/image_manager.py parses it         *)
(***************************************************************************)
\* a region without a heartbeat
NoHeartbeat == [file |-> ""]

\* r1: a heartbeat that fades in over 2 s, and a breathing effect
RegionR1 ==
    [ id |-> "r1",
      points_normalized |->
          << <<200, 200>>, <<600, 200>>, <<600, 600>>, <<200, 600>> >>,
      dwell_time_ms |-> 1500,
      min_confidence |-> 60,
      heartbeat |-> [ file |-> "hb1.wav", resolves |-> TRUE,
                      fade_in_ms |-> 2000, max_distance_cm |-> 150,
                      min_distance_cm |-> 30, curve |-> "linear",
                      loop |-> TRUE, bass_boost |-> TRUE ],
      visual_effects |->
          << [effect_type |-> "breathing", trigger |-> "on_gaze_dwell",
              fade_in_ms |-> 3000] >> ]

\* r2: min_confidence 0, a shorter dwell, a heartbeat that fades in over 1 s
RegionR2 ==
    [ id |-> "r2",
      points_normalized |->
          << <<700, 700>>, <<900, 700>>, <<900, 900>>, <<700, 900>> >>,
      dwell_time_ms |-> 1000,
      min_confidence |-> 0,
      heartbeat |-> [ file |-> "hb2.wav", resolves |-> TRUE,
                      fade_in_ms |-> 1000, max_distance_cm |-> 150,
                      min_distance_cm |-> 30, curve |-> "ease_in",
                      loop |-> TRUE, bass_boost |-> TRUE ],
      visual_effects |-> <<>> ]

\* a region of the second image: no heartbeat
RegionR3 ==
    [ id |-> "r1",
      points_normalized |->
          << <<200, 200>>, <<600, 200>>, <<600, 600>>, <<200, 600>> >>,
      dwell_time_ms |-> 1000,
      min_confidence |-> 60,
      heartbeat |-> NoHeartbeat,
      visual_effects |-> <<>> ]

Image1 ==
    [ title |-> "one", path_ok |-> TRUE,
      ambient |-> [ file |-> "amb1.wav", resolves |-> TRUE, loop |-> TRUE,
                    fade_in_distance_cm |-> 200, fade_in_complete_cm |-> 100,
                    fade_curve |-> "ease_in_out" ],
      regions |-> <<RegionR1, RegionR2>>,
      min_interaction_distance_cm |-> 300,
      close_interaction_distance_cm |-> 80,
      fade_in_ms |-> 2000, fade_out_ms |-> 2000,
      audio_crossfade_ms |-> 3000 ]

Image2 ==
    [ title |-> "two", path_ok |-> TRUE,
      ambient |-> [ file |-> "" ],
      regions |-> <<RegionR3>>,
      min_interaction_distance_cm |-> 300,
      close_interaction_distance_cm |-> 80,
      fade_in_ms |-> 2000, fade_out_ms |-> 0,
      audio_crossfade_ms |-> 3000 ]

\* the first image again, but its metadata names an ambient file that is not
\* in the package: _parse_metadata keeps the name, scan() checks the image
\* file only
Image3 ==
    [Image1 EXCEPT !.title = "three", !.ambient.file = "gone.wav",
                   !.ambient.resolves = FALSE]

\* an image with thresholds and a fade-out of its own
Image4 ==
    [Image2 EXCEPT !.title = "four",
                   !.min_interaction_distance_cm = 250,
                   !.close_interaction_distance_cm = 100,
                   !.fade_out_ms = 4000]

\* images whose metadata asks for a negative fade-out and for one shorter
\* than the shortest withdraw duration; _safe_int accepts both
Image5 == [Image2 EXCEPT !.title = "five", !.fade_out_ms = -500]

Image6 == [Image2 EXCEPT !.title = "six", !.fade_out_ms = 50]

\* ImageManager._images after scan()
Images == <<Image1, Image2, Image3, Image4, Image5, Image6>>

(***************************************************************************)
(* brain/image_manager.py: ImageManager, scanning and navigation           *)
(***************************************************************************)
\* what scan() finds in a subdirectory of the gallery: a package it loads,
\* no metadata.json, a metadata.json that does not parse, an image path that
\* leaves the package directory, no image file
SubdirKinds == {"ok", "no_metadata", "bad_json", "escapes", "no_image"}

\* the gallery directory: its subdirectories by name, "absent" for a name
\* that is not there
Galleries == [1 .. MaxSubdirs -> SubdirKinds \cup {"absent"}]

\* _parse_metadata on the metadata.json of a subdirectory
ParseMetadata(subdir) == [id |-> subdir, title |-> subdir]

\* the object after __init__.  ret, ops and trail are history: what the
\* latest next_image() or prev_image() returned (<<>> is None), the latest
\* two calls, newest last, and _index as it was before each of them
ImageManagerNew ==
    [ images |-> <<>>, image_dirs |-> <<>>, index |-> 0, ret |-> <<>>,
      ops |-> <<>>, trail |-> <<>> ]

\* the loop of scan() over sorted(subdirs), from subdirectory k on
RECURSIVE ScanFrom(_, _, _)
ScanFrom(gallery, k, mgr) ==
    IF k > MaxSubdirs THEN mgr
    ELSE ScanFrom(gallery, k + 1,
             IF gallery[k] = "ok"
             THEN [mgr EXCEPT !.images = Append(@, ParseMetadata(k)),
                              !.image_dirs = Append(@, k)]
             ELSE mgr)

\* the latest entry of a history and a new one
LastTwo(s, x) == IF s = <<>> THEN <<x>> ELSE <<s[Len(s)], x>>

\* scan()
ScanGallery(mgr, gallery) ==
    LET m == ScanFrom(gallery, 1,
                 [mgr EXCEPT !.images = <<>>, !.image_dirs = <<>>,
                             !.index = 0])
    IN  [m EXCEPT !.ret = <<>>, !.ops = <<"scan">>,
                  !.trail = <<mgr.index>>]

\* no wrap-around: the cursor stops at either end
PyModStop(a, n) == IF a < 0 THEN 0 ELSE IF a >= n THEN n - 1 ELSE a

\* Python's % with a positive divisor: the result is in 0 .. n - 1
PyMod(a, n) == a % n

\* the images[index] of the navigation calls and properties
ImageAt(mgr) == mgr.images[mgr.index + 1]

CurrentImage(mgr) == IF mgr.images = <<>> THEN <<>> ELSE <<ImageAt(mgr)>>

CurrentImageDir(mgr) ==
    IF mgr.image_dirs = <<>> THEN <<>>
    ELSE <<mgr.image_dirs[mgr.index + 1]>>

\* next_image() and prev_image(), step +1 and -1
StepImage(mgr, step, op) ==
    IF mgr.images = <<>>
    THEN [mgr EXCEPT !.ret = <<>>, !.ops = LastTwo(@, op),
                     !.trail = LastTwo(@, mgr.index)]
    ELSE LET m == [mgr EXCEPT !.index = PyMod(@ + step, Len(mgr.images))]
         IN  [m EXCEPT !.ret = <<ImageAt(m)>>, !.ops = LastTwo(@, op),
                       !.trail = LastTwo(@, mgr.index)]

NextImage(mgr) == StepImage(mgr, 1, "next")

PrevImage(mgr) == StepImage(mgr, -1, "prev")

(***************************************************************************)
(* SpecPlaylist: an ImageManager on its own: scan() of any gallery, then   *)
(* next_image() and prev_image() in any order.                             *)
(***************************************************************************)
PlaylistScan ==
    /\ NotGallery
    /\ \E gallery \in Galleries : image_mgr' = ScanGallery(image_mgr, gallery)

PlaylistNext ==
    /\ NotGallery
    /\ image_mgr' = NextImage(image_mgr)

PlaylistPrev ==
    /\ NotGallery
    /\ image_mgr' = PrevImage(image_mgr)

NextPlaylist == PlaylistScan \/ PlaylistNext \/ PlaylistPrev

(***************************************************************************)
(* brain/interaction_model.py: InteractionModel                            *)
(***************************************************************************)
\* an empty dict
EmptyMap == [k \in {} |-> 0]

\* d.get(key, default)
MapGet(d, key, default) == IF key \in DOMAIN d THEN d[key] ELSE default

\* d[key] = value
MapPut(d, key, value) ==
    [k \in DOMAIN d \cup {key} |-> IF k = key THEN value ELSE d[k]]

\* d.pop(key, None) for every key of keys
MapDrop(d, keys) == [k \in DOMAIN d \ keys |-> d[k]]

SetMin(S) == CHOOSE x \in S : \A y \in S : x <= y

\* __init__
ImNew == [ dwell_timers |-> EmptyMap,
           prev_active |-> {},
           near_cm |-> CLOSE_INTERACTION_DISTANCE_CM,
           far_cm |-> PRESENCE_DISTANCE_CM ]

\* set_distance_thresholds
ImSetDistanceThresholds(m, near_cm, far_cm) ==
    [m EXCEPT !.near_cm = near_cm, !.far_cm = far_cm]

\* reset
ImReset(m) == [m EXCEPT !.dwell_timers = EmptyMap, !.prev_active = {}]

\* a distance factor that ignores the distance
ComputeDistanceFactorFlat(m, face_data) ==
    IF face_data.num_faces = 0 THEN 0 ELSE 500
\* _compute_distance_factor, in thousandths
ComputeDistanceFactor(m, face_data) ==
    IF face_data.num_faces = 0 THEN 0
    ELSE IF m.near_cm >= m.far_cm
        THEN (IF face_data.face_distance_cm <= m.near_cm THEN 1000 ELSE 0)
    ELSE IF face_data.face_distance_cm <= m.near_cm THEN 1000
    ELSE IF face_data.face_distance_cm >= m.far_cm THEN 0
    ELSE 1000 - (1000 * (face_data.face_distance_cm - m.near_cm))
                    \div (m.far_cm - m.near_cm)

\* the gate in front of the hit tests:  if face_detected and confidence > 0
GazeUsable(face_data) ==
    face_data.num_faces > 0 /\ face_data.gaze_confidence > 0

\* a dwell timer that counts every tick twice
AccumulateTwice(timers, rid, dt) == MapGet(timers, rid, 0) + 2 * dt

\* self._dwell_timers[rid] = self._dwell_timers.get(rid, 0.0) + dt
Accumulate(timers, rid, dt) == MapGet(timers, rid, 0) + dt

\* an update() that drops no timer
GazeLeftNone(prev_active, active_ids) == {}

\* self._prev_active - current_active_set: the regions the gaze has left
GazeLeft(prev_active, active_ids) == prev_active \ active_ids

\* update(face_data, regions, dt): the new model and the InteractionResult.
\* active_regions and dwell_regions are lists in the code; their users test
\* emptiness and membership only, so the model keeps them as sets.
InteractionUpdate(m, face_data, regions, dt) ==
    LET confidence == face_data.gaze_confidence
        hit == { i \in 1 .. Len(regions) :
                    /\ GazeUsable(face_data)
                    /\ regions[i].points_normalized # <<>>
                    /\ RegionHitTest(face_data.gaze_screen_x,
                                     face_data.gaze_screen_y,
                                     regions[i].points_normalized) }
        active_ids == { regions[i].id : i \in hit }
        RegionOf(rid) == regions[CHOOSE i \in hit : regions[i].id = rid]
        timers1 ==
            [ rid \in DOMAIN m.dwell_timers \cup active_ids |->
                IF rid \in active_ids
                THEN IF confidence >= RegionOf(rid).min_confidence
                     THEN Accumulate(m.dwell_timers, rid, dt)
                     ELSE 0
                ELSE m.dwell_timers[rid] ]
        dwell_ids == { rid \in active_ids :
                         /\ timers1[rid] >= RegionOf(rid).dwell_time_ms
                         /\ confidence >= RegionOf(rid).min_confidence }
        timers2 == MapDrop(timers1, GazeLeft(m.prev_active, active_ids))
    IN  [ model |-> [m EXCEPT !.dwell_timers = timers2,
                              !.prev_active = active_ids],
          active_regions |-> active_ids,
          dwell_regions |-> dwell_ids,
          distance_factor |-> ComputeDistanceFactor(m, face_data),
          min_active_confidence |->
              IF dwell_ids = {} THEN 0
              ELSE SetMin({ RegionOf(rid).min_confidence : rid \in dwell_ids }) ]

(***************************************************************************)
(* brain/coordinator.py: the commands the brain puts on its queues         *)
(***************************************************************************)
\* a timeout that has always run out
StaleTimeoutNone == 0 - 1
VISION_STALE_TIMEOUT_MS == 2000
GAZE_EPSILON == 5
\* a change detection that lets every volume through
VolumeEpsilonNone == 0 - 1
VOLUME_EPSILON == 10

\* FaceData(): every field zero
FaceDataNew == [ num_faces |-> 0, face_distance_cm |-> 0, gaze_screen_x |-> 0,
                 gaze_screen_y |-> 0, gaze_confidence |-> 0 ]

HasAmbient(img) == img.ambient.file # ""

HasHeartbeat(region) == region.heartbeat.file # ""

PlayAmbient(amb) ==
    [cmd_type |-> "PLAY_AMBIENT", file_path |-> amb.file, fade_ms |-> 1000,
     loop |-> amb.loop]

PlayHeartbeat(region) ==
    [cmd_type |-> "PLAY_HEARTBEAT", file_path |-> region.heartbeat.file,
     region_id |-> region.id, fade_ms |-> region.heartbeat.fade_in_ms,
     loop |-> region.heartbeat.loop,
     bass_boost |-> region.heartbeat.bass_boost]

StopHeartbeat(rid) ==
    [cmd_type |-> "STOP_HEARTBEAT", region_id |-> rid, fade_ms |-> 800]

SetVolume(name, volume) ==
    [cmd_type |-> "SET_VOLUME", name |-> name, volume |-> volume]

FadeAll(fade_ms) ==
    [cmd_type |-> "FADE_ALL", target_volume |-> 0, fade_ms |-> fade_ms]

StopAll == [cmd_type |-> "STOP_ALL"]

SetEffect(effect_type, intensity) ==
    [cmd_type |-> "SET_EFFECT", effect_type |-> effect_type,
     intensity |-> intensity]

SetEffectIntensity(effect_type, intensity) ==
    [cmd_type |-> "SET_EFFECT_INTENSITY", effect_type |-> effect_type,
     intensity |-> intensity]

\* a vignette that is always fully on
SetVignetteFull(intensity) == [cmd_type |-> "SET_VIGNETTE", intensity |-> 1000]
SetVignette(intensity) == [cmd_type |-> "SET_VIGNETTE", intensity |-> intensity]

SetParallax(gx, gy) ==
    [cmd_type |-> "SET_PARALLAX", gaze_x |-> gx, gaze_y |-> gy]

\* the SET_EFFECT of one on_gaze_dwell visual effect (its params are empty in
\* the model's images, so the breathing defaults apply)
DwellEffect(ve) ==
    [cmd_type |-> "SET_EFFECT", effect_type |-> ve.effect_type,
     intensity |-> 600,
     fade_in_ms |-> IF ve.fade_in_ms > 0 THEN ve.fade_in_ms ELSE 0,
     amplitude |-> IF ve.effect_type = "breathing" THEN 8 ELSE 0,
     frequency |-> IF ve.effect_type = "breathing" THEN 250 ELSE 0]

\* the SET_EFFECT commands of PRESENCE -> ENGAGED, region by region
RECURSIVE DwellEffects(_, _, _)
DwellEffects(i, regions, dwell_regions) ==
    IF i > Len(regions) THEN <<>>
    ELSE LET ves == IF regions[i].id \in dwell_regions
                    THEN SelectSeq(regions[i].visual_effects,
                                   LAMBDA ve : ve.trigger = "on_gaze_dwell")
                    ELSE <<>>
         IN  [k \in 1 .. Len(ves) |-> DwellEffect(ves[k])]
                \o DwellEffects(i + 1, regions, dwell_regions)

\* _on_transition: what it puts on the audio and the display queue
OnTransition(old, new, current, result) ==
    IF old = "IDLE" /\ new = "PRESENCE" THEN
        [ audio |-> IF HasAmbient(current) /\ current.ambient.resolves
                    THEN <<PlayAmbient(current.ambient)>> ELSE <<>>,
          display |-> <<SetEffect("kenburns", 300), SetEffect("parallax", 200)>> ]
    ELSE IF old = "PRESENCE" /\ new = "ENGAGED" THEN
        [ audio |-> <<>>,
          display |-> DwellEffects(1, current.regions, result.dwell_regions) ]
    ELSE IF old = "ENGAGED" /\ new = "CLOSE_INTERACTION" THEN
        [ audio |-> <<>>,
          display |-> <<SetVignette(800),
                        SetEffectIntensity("breathing", 1000)>> ]
    ELSE IF old = "CLOSE_INTERACTION" /\ new = "ENGAGED" THEN
        [ audio |-> <<>>,
          display |-> <<SetVignette(0), SetEffectIntensity("breathing", 600)>> ]
    ELSE IF new = "WITHDRAWING" THEN
        [ audio |-> <<FadeAll(IF current.fade_out_ms # 0
                              THEN current.fade_out_ms
                              ELSE WITHDRAW_FADE_DURATION_MS)>>,
          display |-> <<SetEffectIntensity("breathing", 0), SetVignette(0),
                        SetParallax(500, 500)>> ]
    ELSE IF old = "WITHDRAWING" /\ new = "IDLE" THEN
        [ audio |-> <<StopAll>>,
          display |-> <<SetEffectIntensity("kenburns", 0),
                        SetEffectIntensity("parallax", 0)>> ]
    ELSE [ audio |-> <<>>, display |-> <<>> ]

(***************************************************************************)
(* brain/coordinator.py: _continuous_updates                               *)
(***************************************************************************)
\* started_heartbeats is a dict region_id -> start time, in insertion order;
\* the model keeps, for each entry, the time elapsed since that start
IsStarted(started, rid) == \E i \in 1 .. Len(started) : started[i].rid = rid

StartedAge(started, rid) ==
    started[CHOOSE i \in 1 .. Len(started) : started[i].rid = rid].age

\* a coordinator that sends SET_VOLUME from the first tick on
InGraceNever(age, fade_in_ms) == FALSE

\* if now - started_heartbeats[region.id] < fade_grace_s: continue
InGrace(age, fade_in_ms) == age < fade_in_ms

\* a coordinator that does not remember which heartbeats it started
RememberStartNot(started, rid) == started

\* started_heartbeats[region.id] = now
RememberStart(started, rid) == Append(started, [rid |-> rid, age |-> 0])

\* one pass of "for region in image_metadata.regions" over one region; acc
\* carries started_heartbeats, last_sent_hb_volumes and the commands put
HeartbeatRegion(region, dwell_set, face_data, df, acc) ==
    IF ~HasHeartbeat(region) THEN acc
    ELSE
    LET hb == region.heartbeat
        stream_name == "heartbeat_" \o region.id
        start == /\ region.id \in dwell_set
                 /\ ~IsStarted(acc.started, region.id)
                 /\ hb.resolves
        acc1 == IF start
                THEN [acc EXCEPT
                        !.audio = Append(@, PlayHeartbeat(region)),
                        !.started = RememberStart(@, region.id)]
                ELSE acc
        hb_vol == IF hb.curve \in CurveNames
                  THEN Curve(hb.curve, face_data.face_distance_cm,
                             hb.max_distance_cm, hb.min_distance_cm)
                  ELSE df
        prev_hb_vol == MapGet(acc1.hbvol, stream_name, -1000)
    IN  IF ~IsStarted(acc1.started, region.id) THEN acc1
        ELSE IF InGrace(StartedAge(acc1.started, region.id), hb.fade_in_ms)
            THEN acc1
        ELSE IF Abs(hb_vol - prev_hb_vol) <= VOLUME_EPSILON THEN acc1
        ELSE [acc1 EXCEPT
                !.hbvol = MapPut(@, stream_name, hb_vol),
                !.audio = Append(@, SetVolume(stream_name, hb_vol))]

RECURSIVE HeartbeatLoop(_, _, _, _, _, _)
HeartbeatLoop(i, regions, dwell_set, face_data, df, acc) ==
    IF i > Len(regions) THEN acc
    ELSE HeartbeatLoop(i + 1, regions, dwell_set, face_data, df,
                       HeartbeatRegion(regions[i], dwell_set, face_data, df,
                                       acc))

\* "for rid in started_heartbeats: if rid not in dwell_set": STOP_HEARTBEAT,
\* forget the last sent volume, and delete the entry
HeartbeatStops(dwell_set, acc) ==
    LET stopped == SelectSeq(acc.started, LAMBDA e : e.rid \notin dwell_set)
    IN  [acc EXCEPT
            !.audio = @ \o [k \in 1 .. Len(stopped) |->
                               StopHeartbeat(stopped[k].rid)],
            !.hbvol = MapDrop(@, { "heartbeat_" \o stopped[k].rid :
                                     k \in 1 .. Len(stopped) }),
            !.started = SelectSeq(@, LAMBDA e : e.rid \in dwell_set)]

\* continuous updates that stop in IDLE only
QuietStatesIdleOnly == {"IDLE"}
\* if state in (InteractionState.IDLE, InteractionState.WITHDRAWING): return
QuietStates == {"IDLE", "WITHDRAWING"}

\* _continuous_updates: the new (gaze, volume) tracking state, the updated
\* started_heartbeats and last_sent_hb_volumes, and the commands put
ContinuousUpdates(state, face_data, result, prev_gaze, prev_volume, img, started, hbvol, ambient_on) ==
    IF state \in QuietStates
    THEN [ gaze |-> prev_gaze, volume |-> -1000, started |-> started,
           hbvol |-> hbvol, audio |-> <<>>, display |-> <<>> ]
    ELSE
    LET gx == face_data.gaze_screen_x
        gy == face_data.gaze_screen_y
        moved == \/ Abs(gx - prev_gaze[1]) > GAZE_EPSILON
                 \/ Abs(gy - prev_gaze[2]) > GAZE_EPSILON
        amb == img.ambient
        volume == IF amb.fade_curve \in CurveNames
                  THEN Curve(amb.fade_curve, face_data.face_distance_cm,
                             amb.fade_in_distance_cm, amb.fade_in_complete_cm)
                  ELSE 300 + (7 * result.distance_factor) \div 10
        send_volume == /\ ambient_on
                       /\ HasAmbient(img)
                       /\ Abs(volume - prev_volume) > VOLUME_EPSILON
        acc0 == [ started |-> started, hbvol |-> hbvol,
                  audio |-> IF send_volume
                            THEN <<SetVolume("ambient", volume)>> ELSE <<>> ]
        acc1 == IF /\ state \in {"ENGAGED", "CLOSE_INTERACTION"}
                   /\ img.regions # <<>>
                THEN HeartbeatStops(result.dwell_regions,
                        HeartbeatLoop(1, img.regions, result.dwell_regions,
                                      face_data, result.distance_factor, acc0))
                ELSE acc0
    IN  [ gaze |-> IF moved THEN <<gx, gy>> ELSE prev_gaze,
          volume |-> IF send_volume THEN volume ELSE prev_volume,
          started |-> acc1.started,
          hbvol |-> acc1.hbvol,
          audio |-> acc1.audio,
          display |-> IF moved THEN <<SetParallax(gx, gy)>> ELSE <<>> ]

(***************************************************************************)
(* brain/coordinator.py: run_brain                                         *)
(***************************************************************************)
\* _apply_image_thresholds on the state machine
ApplyFsmThresholds(f, img) ==
    SetWithdrawDuration(
        SetDistanceThresholds(f, img.min_interaction_distance_cm,
                              img.close_interaction_distance_cm),
        IF img.fade_out_ms # 0 THEN img.fade_out_ms
        ELSE WITHDRAW_FADE_DURATION_MS)

\* an image cycle that leaves the interaction model's thresholds alone
ApplyImThresholdsNot(m, img) == m

\* _apply_image_thresholds on the interaction model
ApplyImThresholds(m, img) ==
    ImSetDistanceThresholds(m, img.close_interaction_distance_cm,
                            img.min_interaction_distance_cm)

\* _send_load_image
LoadImage(img) ==
    IF img.path_ok THEN <<[cmd_type |-> "LOAD_IMAGE", path |-> img.title]>>
    ELSE <<>>

\* _send_crossfade_image: the display command
CrossfadeDisplay(img) ==
    IF img.path_ok
    THEN <<[cmd_type |-> "CROSSFADE_IMAGE", path |-> img.title,
            duration_ms |-> img.fade_in_ms]>>
    ELSE <<>>

\* _send_crossfade_image: the audio command
CrossfadeAudio(img) ==
    IF img.path_ok THEN <<FadeAll(img.audio_crossfade_ms)>> ELSE <<>>

\* a smoothed face sample
Face(d, g, c) == [ num_faces |-> 1, face_distance_cm |-> d,
                   gaze_screen_x |-> g[1], gaze_screen_y |-> g[2],
                   gaze_confidence |-> c ]

\* gaze points inside r1, inside r2 and outside both
InR1 == <<400, 400>>
InR2 == <<800, 800>>
Outside == <<50, 50>>

\* the faces of the model: nearer than C_cm, between C_cm and the audio
\* fade-in distances, between those and P_cm, and beyond P_cm; looking at
\* r1, at r2 or at neither; with a gaze confidence of 0, below 0.6 and above
FaceSamples ==
    { Face(130, InR1, 90), Face(130, InR1, 50), Face(130, InR2, 50),
      Face(130, InR2, 0), Face(130, Outside, 90), Face(70, InR1, 90),
      Face(250, InR1, 90), Face(320, Outside, 90) }

BrainConfidences == { s.gaze_confidence : s \in FaceSamples }

\* what shm_reader.read() returns: None, a zero-face sample, or a face sample
\* with some gaze confidence
RawFace(c) == Face(130, InR1, c)

ReadResults == {NoSample, FaceDataNew} \cup { RawFace(c) : c \in BrainConfidences }

\* _smooth: a zero-face sample passes through; of a face sample the number of
\* faces and the gaze confidence pass through, and the distance and the gaze
\* point come out of the Kalman and EMA filters.  Their output depends on
\* every earlier sample; the model lets it be any of its faces.
Smooth(raw) ==
    IF raw.num_faces = 0 THEN {raw}
    ELSE { s \in FaceSamples : s.gaze_confidence = raw.gaze_confidence }

\* the elapsed time of every started heartbeat grows with the clock
AgeStarted(started, dt) ==
    [k \in 1 .. Len(started) |-> [started[k] EXCEPT !.age = @ + dt]]

\* the region ids of the PLAY_HEARTBEAT commands of a command sequence
PlaysOf(audio) ==
    { audio[k].region_id :
        k \in { j \in 1 .. Len(audio) : audio[j].cmd_type = "PLAY_HEARTBEAT" } }

\* the gaze of the SET_PARALLAX commands that _continuous_updates put; the
\* SET_PARALLAX of entering WITHDRAWING is not one of them
GazeParallax(display, state) ==
    IF state = "WITHDRAWING" THEN <<>>
    ELSE SelectSeq(display, LAMBDA c : c.cmd_type = "SET_PARALLAX")

\* the audio commands of a tick followed from command k on: sent is the
\* volume last put per stream name, forgotten when the stream is started
\* anew or stopped; repeats are the positions of the SET_VOLUMEs whose
\* volume is within eps of the one last put for that stream
RECURSIVE VolumeTrail(_, _, _, _)
VolumeTrail(audio, k, eps, acc) ==
    IF k > Len(audio) THEN acc
    ELSE LET c == audio[k]
             name == CASE c.cmd_type = "PLAY_AMBIENT" -> "ambient"
                       [] c.cmd_type \in {"PLAY_HEARTBEAT", "STOP_HEARTBEAT"}
                            -> "heartbeat_" \o c.region_id
                       [] c.cmd_type = "SET_VOLUME" -> c.name
                       [] OTHER -> ""
         IN  VolumeTrail(audio, k + 1, eps,
               CASE c.cmd_type = "STOP_ALL" ->
                      [acc EXCEPT !.sent = EmptyMap]
                 [] c.cmd_type \in {"PLAY_AMBIENT", "PLAY_HEARTBEAT",
                                    "STOP_HEARTBEAT"} ->
                      [acc EXCEPT !.sent = MapDrop(@, {name})]
                 [] c.cmd_type = "SET_VOLUME" ->
                      [ sent |-> MapPut(acc.sent, name, c.volume),
                        repeats |->
                          IF /\ name \in DOMAIN acc.sent
                             /\ Abs(c.volume - acc.sent[name]) <= eps
                          THEN acc.repeats \cup {k} ELSE acc.repeats ]
                 [] OTHER -> acc)

\* the second half of an iteration: the locals after the transition handler,
\* _continuous_updates, and the image cycling
TickFinish(face_data, dt, fresh, age, result, fsm1) ==
    LET current_image == Images[image_index]
        new_state == fsm1.state
        changed == new_state # prev_state
        to_presence == changed /\ prev_state = "IDLE" /\ new_state = "PRESENCE"
        to_idle == changed /\ prev_state = "WITHDRAWING" /\ new_state = "IDLE"
        cycle == fsm1.should_cycle_image
        next_index == (image_index % Len(Images)) + 1
        next_image == Images[next_index]
    IN
    \E trans \in { IF changed
                   THEN OnTransition(prev_state, new_state, current_image,
                                     result)
                   ELSE [audio |-> <<>>, display |-> <<>>] },
       ambient1 \in { IF to_idle THEN FALSE
                      ELSE IF to_presence /\ HasAmbient(current_image) THEN TRUE
                      ELSE ambient_started } :
    \E cu \in { ContinuousUpdates(new_state, face_data, result, last_sent_gaze,
                    last_sent_volume, current_image,
                    IF to_idle THEN <<>>
                    ELSE AgeStarted(started_heartbeats, dt),
                    IF to_idle THEN EmptyMap ELSE last_sent_hb_volumes,
                    ambient1) } :
    \E audio \in { trans.audio \o cu.audio
                     \o (IF cycle THEN CrossfadeAudio(next_image) ELSE <<>>) } :
        /\ fsm' = IF cycle THEN ApplyFsmThresholds(fsm1, next_image) ELSE fsm1
        /\ fsm_in' = [num_faces |-> face_data.num_faces,
                      face_distance_cm |-> face_data.face_distance_cm]
        /\ interaction' =
              IF cycle
                  THEN ApplyImThresholds(ImReset(result.model), next_image)
              ELSE IF to_idle THEN ImReset(result.model)
              ELSE result.model
        /\ image_index' = IF cycle THEN next_index ELSE image_index
        /\ prev_state' = new_state
        /\ last_valid_face' = IF fresh THEN face_data ELSE last_valid_face
        /\ since_new_frame' = IF fresh THEN 0 ELSE age
        /\ last_sent_gaze' = cu.gaze
        /\ last_sent_volume' = cu.volume
        /\ started_heartbeats' = IF cycle THEN <<>> ELSE cu.started
        /\ last_sent_hb_volumes' = IF cycle THEN EmptyMap ELSE cu.hbvol
        /\ ambient_started' = IF cycle THEN FALSE ELSE ambient1
        /\ tick_in' = [face_data |-> face_data, dt |-> dt,
                       dwell_regions |-> result.dwell_regions,
                       active_regions |-> result.active_regions,
                       min_active_confidence |->
                           result.min_active_confidence]
        /\ tick_audio' = audio
        /\ tick_display' =
              trans.display \o cu.display
                \o (IF cycle THEN CrossfadeDisplay(next_image) ELSE <<>>)
        /\ hb_play_age' =
              [ rid \in RegionIds |->
                  IF rid \in PlaysOf(audio) THEN 0
                  ELSE IF hb_play_age[rid] < 0 THEN hb_play_age[rid]
                  ELSE Min(hb_play_age[rid] + dt, MaxTimerMs) ]
        /\ hb_plays' =
              [ rid \in RegionIds |->
                  IF rid \notin result.dwell_regions THEN 0
                  ELSE IF rid \in PlaysOf(audio)
                      THEN Min(2, hb_plays[rid] + 1)
                  ELSE hb_plays[rid] ]
        /\ ticks' = ticks + 1
        /\ sent_gaze' =
              LET put == GazeParallax(trans.display \o cu.display, new_state)
              IN  IF put = <<>> THEN sent_gaze
                  ELSE <<put[Len(put)].gaze_x, put[Len(put)].gaze_y>>
        /\ sent_volume' =
              VolumeTrail(audio, 1, 0,
                          [sent |-> sent_volume, repeats |-> {}]).sent
        /\ ambient_played' =
              \/ prev_state # "IDLE" /\ ambient_played
              \/ \E k \in 1 .. Len(audio) : audio[k].cmd_type = "PLAY_AMBIENT"
        /\ withdrew_from' = IF changed /\ new_state = "WITHDRAWING"
                                THEN prev_state
                            ELSE IF to_presence THEN "none"
                            ELSE withdrew_from

\* One iteration of the while loop, for one reader result, one smoothed
\* sample and one dt: the vision read, the interaction model, the state
\* machine, and then the rest.  The audio queue is left to the caller.
TickBody(raw, smoothed, dt) ==
    \E face_data \in { IF raw # NoSample THEN smoothed
                       ELSE IF since_new_frame + dt > VISION_STALE_TIMEOUT_MS
                           THEN FaceDataNew
                       ELSE last_valid_face } :
    \E result \in { InteractionUpdate(interaction, face_data,
                       IF fsm.state = "WITHDRAWING" THEN <<>>
                       ELSE Images[image_index].regions, dt) } :
    \E fsm1 \in { FsmUpdate(fsm, face_data, result.active_regions, dt,
                            result.dwell_regions,
                            result.min_active_confidence) } :
        TickFinish(face_data, dt, raw # NoSample, since_new_frame + dt, result,
                   fsm1)

\* the clocks of the coordinator stay inside the model's bound
BrainBounded ==
    /\ ticks < MaxTicks
    /\ TimersBounded(fsm')
    /\ since_new_frame' <= MaxTimerMs
    /\ \A rid \in DOMAIN interaction'.dwell_timers :
          interaction'.dwell_timers[rid] <= MaxTimerMs
    /\ \A k \in 1 .. Len(started_heartbeats') :
          started_heartbeats'[k].age <= MaxTimerMs

\* the locals run_brain enters its loop with
BrainLocalsInit ==
    /\ interaction = ApplyImThresholds(ImNew, Images[1])
    /\ image_index = 1
    /\ prev_state = "IDLE"
    /\ last_valid_face = FaceDataNew
    /\ since_new_frame = 0
    /\ last_sent_gaze = <<0, 0>>
    /\ last_sent_volume = -1000
    /\ started_heartbeats = <<>>
    /\ last_sent_hb_volumes = EmptyMap
    /\ ambient_started = FALSE
    /\ tick_in = NoInput
    /\ tick_audio = <<>>
    /\ tick_display = LoadImage(Images[1])
    /\ hb_play_age = [rid \in RegionIds |-> -1]
    /\ hb_plays = [rid \in RegionIds |-> 0]
    /\ withdrew_from = "none"
    /\ sent_gaze = <<>>
    /\ sent_volume = EmptyMap
    /\ ambient_played = FALSE
    /\ ticks = 0

\* the state run_brain enters its loop with
BrainInit ==
    /\ fsm = ApplyFsmThresholds(FsmNew, Images[1])
    /\ fsm_in = NoInput
    /\ BrainLocalsInit

\* one iteration of the loop; what the audio process does with the commands
\* is outside SpecBrain, which records them in tick_audio
BrainTick ==
    /\ NotBrain
    /\ \E raw \in ReadResults, dt \in DtChoices :
        \E smoothed \in (IF raw = NoSample THEN {FaceDataNew} ELSE Smooth(raw)) :
            TickBody(raw, smoothed, dt)
    /\ BrainBounded

NextBrain == BrainTick

(***************************************************************************)
(* SpecStall: the brain loop on a vision channel that may stall for good.  *)
(* Up to MaxStallTicks iterations run while the channel is alive; once it  *)
(* has stalled the reader returns None on every iteration.  The iterations *)
(* after the stall are followed until the state machine is back in IDLE.   *)
(***************************************************************************)
StallSamples ==
    { Face(130, InR1, 90), Face(130, Outside, 90), Face(70, InR1, 90) }

StallReadResults == {NoSample, FaceDataNew, RawFace(90)}

\* the vision process stops writing
Stall ==
    /\ ~stalled
    /\ stalled' = TRUE
    /\ UNCHANGED <<seqlock_vars, fsm_vars, brain_vars, call_vars, coord_vars, thread_vars, gallery_vars, audio_vars,
                   callback_vars, fade_vars>>

\* an iteration while the channel is alive
AliveTick ==
    /\ NotBrain
    /\ ~stalled
    /\ ticks < MaxStallTicks
    /\ \E raw \in StallReadResults, dt \in DtChoices :
        \E smoothed \in (IF raw = NoSample THEN {FaceDataNew}
                         ELSE IF raw.num_faces = 0 THEN {raw}
                         ELSE StallSamples) :
            TickBody(raw, smoothed, dt)

\* an iteration after the stall: shm_reader.read() returns None
StalledTick ==
    /\ NotBrain
    /\ stalled
    /\ fsm.state # "IDLE"
    /\ \E dt \in DtChoices : TickBody(NoSample, FaceDataNew, dt)

NextStall == Stall \/ AliveTick \/ StalledTick

(***************************************************************************)
(* SpecGallery: the brain loop in IDLE on any image of the playlist, as    *)
(* after a number of idle image cycles.                                    *)
(***************************************************************************)
GallerySamples ==
    { Face(130, InR1, 90), Face(130, Outside, 90), Face(70, InR1, 90),
      Face(250, InR1, 90), Face(310, InR1, 90) }

\* the locals after _send_crossfade_image and the resets of an image cycle
GalleryInit ==
    \E i \in 1 .. Len(Images) :
        /\ fsm = ApplyFsmThresholds(FsmNew, Images[i])
        /\ fsm_in = NoInput
        /\ interaction = ApplyImThresholds(ImNew, Images[i])
        /\ image_index = i
        /\ prev_state = "IDLE"
        /\ last_valid_face = FaceDataNew
        /\ since_new_frame = 0
        /\ last_sent_gaze = <<0, 0>>
        /\ last_sent_volume = -1000
        /\ started_heartbeats = <<>>
        /\ last_sent_hb_volumes = EmptyMap
        /\ ambient_started = FALSE
        /\ tick_in = NoInput
        /\ tick_audio = IF i = 1 THEN <<>> ELSE CrossfadeAudio(Images[i])
        /\ tick_display = IF i = 1 THEN LoadImage(Images[i])
                          ELSE CrossfadeDisplay(Images[i])
        /\ hb_play_age = [rid \in RegionIds |-> -1]
        /\ hb_plays = [rid \in RegionIds |-> 0]
        /\ withdrew_from = "none"
        /\ sent_gaze = <<>>
        /\ sent_volume = EmptyMap
        /\ ambient_played = FALSE
        /\ ticks = 0

GalleryTick ==
    /\ NotBrain
    /\ \E raw \in StallReadResults, dt \in DtChoices :
        \E smoothed \in (IF raw = NoSample THEN {FaceDataNew}
                         ELSE IF raw.num_faces = 0 THEN {raw}
                         ELSE GallerySamples) :
            TickBody(raw, smoothed, dt)
    /\ BrainBounded

NextGallery == GalleryTick

(***************************************************************************)
(* SpecDwell: InteractionModel.update() called on its own, with any face   *)
(* sample, with the regions of the first image or with none, and any dt.   *)
(* The call is kept, and with it, per region, the time summed over the     *)
(* unbroken run of calls up to this one in which the region contained the  *)
(* gaze point of a detected face with a confidence of at least its         *)
(* min_confidence.                                                         *)
(***************************************************************************)
DwellFaces ==
    { FaceDataNew,
      [FaceDataNew EXCEPT !.gaze_screen_x = InR1[1], !.gaze_screen_y = InR1[2],
                          !.gaze_confidence = 50],
      Face(130, InR1, 90), Face(130, InR1, 50), Face(130, InR2, 50),
      Face(130, InR2, 0), Face(130, Outside, 90) }

DwellDts == {500, 1000}

DwellRegionLists == {Image1.regions, <<>>}

\* the region contains the gaze point of a detected face, with sufficient
\* confidence
GazeHolds(face_data, regions, rid) ==
    \E i \in 1 .. Len(regions) :
        /\ regions[i].id = rid
        /\ face_data.num_faces > 0
        /\ RegionHitTest(face_data.gaze_screen_x, face_data.gaze_screen_y,
                         regions[i].points_normalized)
        /\ face_data.gaze_confidence >= regions[i].min_confidence

DwellCall ==
    /\ UNCHANGED <<seqlock_vars, fsm_vars, stall_vars, coord_vars, thread_vars, gallery_vars,
                   audio_vars, callback_vars, fade_vars>>
    /\ \E face_data \in DwellFaces, regions \in DwellRegionLists,
          dt \in DwellDts :
        \E r \in { InteractionUpdate(interaction, face_data, regions, dt) } :
            /\ interaction' = r.model
            /\ calls' =
                  << [ before |-> interaction, face_data |-> face_data,
                       regions |-> regions, dt |-> dt,
                       active_regions |-> r.active_regions,
                       dwell_regions |-> r.dwell_regions,
                       run |-> [ rid \in RegionIds |->
                                   IF GazeHolds(face_data, regions, rid)
                                   THEN (IF calls = <<>> THEN 0
                                         ELSE calls[1].run[rid]) + dt
                                   ELSE 0 ] ] >>
    /\ \A rid \in RegionIds : calls'[1].run[rid] <= MaxTimerMs
    /\ UNCHANGED <<image_index, prev_state, last_valid_face, since_new_frame,
                   last_sent_gaze, last_sent_volume, started_heartbeats,
                   last_sent_hb_volumes, ambient_started, tick_in, tick_audio,
                   tick_display, hb_play_age, hb_plays, withdrew_from,
                   sent_gaze, sent_volume, ambient_played, ticks>>

NextDwell == DwellCall

(***************************************************************************)
(* SpecCycle: the brain loop from its start, with iterations that come as  *)
(* late as an idle image cycle, so that the playlist is walked through.    *)
(***************************************************************************)
CycleDts == {2000, IDLE_IMAGE_CYCLE_MS}

CycleTick ==
    /\ NotBrain
    /\ \E raw \in StallReadResults, dt \in CycleDts :
        \E smoothed \in (IF raw = NoSample THEN {FaceDataNew}
                         ELSE IF raw.num_faces = 0 THEN {raw}
                         ELSE GallerySamples) :
            TickBody(raw, smoothed, dt)
    /\ BrainBounded

NextCycle == CycleTick

(***************************************************************************)
(* SpecWithdraw: the brain loop in IDLE on any image of the playlist, with *)
(* a stopwatch: started at 0 by the iteration that puts FADE_ALL, advanced *)
(* by the dt of every later iteration, and halted by the iteration that    *)
(* puts STOP_ALL.                                                          *)
(***************************************************************************)
\* the commands of a given type among those one iteration put
PutsOfType(audio, cmd_type) ==
    { k \in 1 .. Len(audio) : audio[k].cmd_type = cmd_type }

WithdrawTick ==
    /\ UNCHANGED <<seqlock_vars, stall_vars, coord_vars, thread_vars, gallery_vars,
                   audio_vars, callback_vars, fade_vars>>
    /\ \E raw \in StallReadResults, dt \in DtChoices :
        \E smoothed \in (IF raw = NoSample THEN {FaceDataNew}
                         ELSE IF raw.num_faces = 0 THEN {raw}
                         ELSE GallerySamples) :
            /\ TickBody(raw, smoothed, dt)
            /\ calls' =
                  LET fades == PutsOfType(tick_audio', "FADE_ALL")
                      stops == PutsOfType(tick_audio', "STOP_ALL")
                  IN  IF fades # {}
                          THEN << [ fade_ms |->
                                      tick_audio'[CHOOSE k \in fades : TRUE]
                                          .fade_ms,
                                    elapsed_ms |-> 0, stopped |-> FALSE ] >>
                      ELSE IF calls = <<>> \/ calls[1].stopped THEN calls
                      ELSE << [ calls[1] EXCEPT
                                  !.elapsed_ms = @ + dt,
                                  !.stopped = stops # {} ] >>
    /\ BrainBounded

NextWithdraw == WithdrawTick

(***************************************************************************)
(* SpecDistance: _compute_distance_factor called on an InteractionModel    *)
(* whose thresholds were set with set_distance_thresholds(near, far).      *)
(***************************************************************************)
\* (near_cm, far_cm): the configured pair, a per-image pair, equal
\* thresholds, and thresholds the wrong way round
DistanceThresholds == { <<80, 300>>, <<30, 150>>, <<100, 100>>, <<250, 120>> }

DistanceValues == {29, 30, 80, 90, 100, 101, 120, 150, 190, 250, 299, 300, 301}

\* the calls kept: the latest two
LatestTwo(s) == IF Len(s) > 2 THEN Tail(s) ELSE s

DistanceFactorCall ==
    /\ \E t \in DistanceThresholds, d \in DistanceValues, n \in {0, 1} :
        calls' = LatestTwo(Append(calls,
            [ near_cm |-> t[1], far_cm |-> t[2], num_faces |-> n,
              face_distance_cm |-> d,
              distance_factor |->
                  ComputeDistanceFactor(
                      ImSetDistanceThresholds(ImNew, t[1], t[2]),
                      [FaceDataNew EXCEPT !.num_faces = n,
                                          !.face_distance_cm = d]) ]))
    /\ UNCHANGED <<seqlock_vars, fsm_vars, brain_vars, stall_vars, audio_vars,
                   callback_vars, fade_vars, coord_vars,
                   thread_vars, gallery_vars>>

NextDistance == DistanceFactorCall

(***************************************************************************)
(* SpecEpsilon: the brain loop fed with samples that differ by about the   *)
(* change-detection epsilons                                               *)
(***************************************************************************)
\* Gazes 0.005 and 0.006 away from InR1; distances whose ambient volume
\* (ease_in_out, 200 to 100 cm) and heartbeat volume (linear, 150 to 30 cm)
\* differ by less and by more than 0.01
EpsilonSamples ==
    { Face(130, InR1, 90), Face(131, InR1, 90), Face(132, InR1, 90),
      Face(105, InR1, 90), Face(106, InR1, 90),
      Face(130, <<405, 400>>, 90), Face(130, <<406, 400>>, 90) }

EpsilonTick ==
    /\ NotBrain
    /\ \E smoothed \in EpsilonSamples \cup {FaceDataNew}, dt \in DtChoices :
          TickBody(IF smoothed.num_faces = 0 THEN FaceDataNew
                   ELSE RawFace(smoothed.gaze_confidence), smoothed, dt)
    /\ BrainBounded

NextEpsilon == EpsilonTick
(***************************************************************************)
(* audio/audio_stream.py: AudioStream, volumes in thousandths              *)
(***************************************************************************)
\* __init__: the playback and the volume / fade state.  The position inside
\* the sample data is left out; the model's files have frames, so a looping
\* stream never finishes.
StreamNew == [ volume |-> 0, fade_target |-> 0, fade_rate |-> 0,
               fading |-> FALSE, finished |-> FALSE ]

\* max(0.0, min(1.0, float(volume)))
Clamp01(v) == Max(0, Min(1000, v))

\* set_volume
StreamSetVolume(s, volume) ==
    [s EXCEPT !.volume = Clamp01(volume), !.fade_target = Clamp01(volume),
              !.fading = FALSE]

\* set_fade; fade_rate is in thousandths per second
StreamSetFade(s, target_volume, duration_ms) ==
    IF duration_ms <= 0 THEN StreamSetVolume(s, Clamp01(target_volume))
    ELSE IF s.volume = Clamp01(target_volume)
        THEN [s EXCEPT !.fade_target = Clamp01(target_volume),
                       !.fading = FALSE]
    ELSE [s EXCEPT !.fade_target = Clamp01(target_volume),
                   !.fade_rate = ((Clamp01(target_volume) - s.volume) * 1000)
                                    \div duration_ms,
                   !.fading = TRUE]

\* update(dt)
StreamUpdate(s, dt) ==
    IF ~s.fading THEN s
    ELSE LET v == s.volume + (s.fade_rate * dt) \div 1000
             reached == \/ s.fade_rate > 0 /\ v >= s.fade_target
                        \/ s.fade_rate < 0 /\ v <= s.fade_target
         IN  [s EXCEPT !.volume = Clamp01(IF reached THEN s.fade_target ELSE v),
                       !.fading = ~reached]

\* is_active
StreamIsActive(s) ==
    /\ ~s.finished
    /\ s.volume > 0 \/ (s.fading /\ s.fade_target > 0)

\* reset: position 0, finished only for a file without frames
StreamReset(s) == [s EXCEPT !.finished = FALSE]

(***************************************************************************)
(* audio/mixer.py: AudioMixer.  _streams maps a name to a stream object;   *)
(* the objects live in the heap `streams`, a map from object id to fields. *)
(***************************************************************************)
\* f"_retiring_{name}_{id(old)}"
RetireName(name, old) == "_retiring_" \o name \o "_" \o old

\* add_stream that installs the new stream and forgets the old one
MixerAddStreamNoRetire(m, heap, name, stream) ==
    [ mixer |-> MapPut(m, name, stream), heap |-> heap ]

\* add_stream, inside "with self._lock"
MixerAddStream(m, heap, name, stream) ==
    IF name \in DOMAIN m /\ StreamIsActive(heap[m[name]])
    THEN [ mixer |-> MapPut(MapPut(m, RetireName(name, m[name]), m[name]),
                            name, stream),
           heap |-> [heap EXCEPT ![m[name]] = StreamSetFade(@, 0, 200)] ]
    ELSE [ mixer |-> MapPut(m, name, stream), heap |-> heap ]

RECURSIVE UpdateTimes(_, _, _)
UpdateTimes(s, dt, n) ==
    IF n = 0 THEN s ELSE UpdateTimes(StreamUpdate(s, dt), dt, n - 1)

\* mix, inside "with self._lock": stream.update(dt) for every value of
\* _streams, so an object registered under two names is updated twice
MixerMix(m, heap, dt) ==
    [ o \in DOMAIN heap |->
        UpdateTimes(heap[o], dt, Cardinality({ n \in DOMAIN m : m[n] = o })) ]

\* fade_all, inside "with self._lock"
MixerFadeAll(m, heap, target_volume, duration_ms) ==
    [ o \in DOMAIN heap |->
        IF \E n \in DOMAIN m : m[n] = o
        THEN StreamSetFade(heap[o], target_volume, duration_ms)
        ELSE heap[o] ]

\* not stream.is_active and stream.current_volume <= 0.0
StreamIsSilent(s) == ~StreamIsActive(s) /\ s.volume <= 0

\* a remove_inactive that looks at is_active only
MixerRemoveNotActive(m, heap) ==
    MapDrop(m, { n \in DOMAIN m : ~StreamIsActive(heap[m[n]]) })

\* remove_inactive, inside "with self._lock"
MixerRemoveInactive(m, heap) ==
    MapDrop(m, { n \in DOMAIN m : StreamIsSilent(heap[m[n]]) })

(***************************************************************************)
(* audio/process.py: run_audio_process.  The command thread runs the loop  *)
(* (queue get, _handle_command, cleanup sweep); the sounddevice callback   *)
(* thread runs mixer.mix.  A call that takes the mixer lock is one step,   *)
(* enabled when the lock is free; mix() holds the lock from MixBegin to    *)
(* MixRun.  What _handle_command does to a stream object between two       *)
(* mixer calls is a step of its own.                                       *)
(***************************************************************************)
NoCommand == [cmd_type |-> "NONE"]
NoObject == ""

\* one modelled mix() stands for the run of callbacks that covers this many
\* milliseconds of audio
MixDtMs == 500

\* the key of _stream_cache, also the identity of the cached object
CacheKey(file_path, bass_boost) ==
    IF bass_boost THEN file_path \o "+bass" ELSE file_path

\* the mixer name a command is about
StreamNameOf(cmd) ==
    CASE cmd.cmd_type \in {"PLAY_AMBIENT", "STOP_AMBIENT"} -> "ambient"
      [] cmd.cmd_type \in {"PLAY_HEARTBEAT", "STOP_HEARTBEAT"} ->
            "heartbeat_" \o cmd.region_id
      [] OTHER -> cmd.name

\* the objects currently registered in the mixer
Registered(m) == { m[n] : n \in DOMAIN m }

\* no stream field written by the command thread in this step
WroteNothing == [registered |-> FALSE, locked |-> FALSE]

\* cmd = cmd_queue.get(timeout=...): a command, or queue.Empty
CmdGet ==
    /\ NotAudio
    /\ UNCHANGED callback_vars
    /\ cmd_pc = "get"
    /\ IF audio_q = <<>>
       THEN /\ cmd_pc' = "sweep"
            /\ UNCHANGED <<audio_q, cmd_cur>>
       ELSE /\ audio_q' = Tail(audio_q)
            /\ cmd_cur' = Head(audio_q)
            /\ cmd_pc' =
                 CASE Head(audio_q).cmd_type \in {"PLAY_AMBIENT", "PLAY_HEARTBEAT"}
                        -> "create"
                   [] Head(audio_q).cmd_type
                        \in {"STOP_AMBIENT", "STOP_HEARTBEAT", "SET_VOLUME"}
                        -> "lookup"
                   [] Head(audio_q).cmd_type = "FADE_ALL" -> "fade_all"
                   [] Head(audio_q).cmd_type \in {"STOP_ALL", "SHUTDOWN"}
                        -> "stop_all"
                   [] OTHER -> "sweep"
    /\ cmd_wrote' = WroteNothing
    /\ UNCHANGED <<streams, mixer_streams, mutex, cmd_obj, cb_pc,
                   fade_out_asked, mixer_calls>>

\* files sf.read cannot decode
UnloadableFiles == {"corrupt.wav"}

\* a loader that takes any file
LoadsAlways(file_path) == TRUE

\* AudioStream(file_path, ...): sf.read returns, or raises
Loads(file_path) == file_path \notin UnloadableFiles

\* PLAY_*: audio = _get_or_create_stream(...); audio.set_volume(0.0).  When
\* the file is not cached and does not load, AudioStream(...) raises before
\* the cache is written; "except Exception" in _handle_command logs it and
\* the handler returns True.
CmdPlayCreate ==
    /\ NotAudio
    /\ UNCHANGED callback_vars
    /\ cmd_pc = "create"
    /\ LET key == CacheKey(cmd_cur.file_path, cmd_cur.cmd_type = "PLAY_HEARTBEAT")
           audio == IF key \in DOMAIN streams THEN StreamReset(streams[key])
                    ELSE StreamNew
       IN  IF key \notin DOMAIN streams /\ ~Loads(cmd_cur.file_path)
           THEN /\ cmd_pc' = "sweep"
                /\ cmd_wrote' = WroteNothing
                /\ UNCHANGED <<streams, cmd_obj, fade_out_asked>>
           ELSE /\ streams' = MapPut(streams, key, StreamSetVolume(audio, 0))
                /\ cmd_obj' = key
                /\ cmd_wrote' = [registered |-> key \in Registered(mixer_streams),
                                 locked |-> FALSE]
                /\ fade_out_asked' = fade_out_asked \ {key}
                /\ cmd_pc' = "add"
    /\ UNCHANGED <<audio_q, mixer_streams, mutex, cmd_cur, cb_pc, mixer_calls>>

\* PLAY_*: mixer.add_stream(name, audio)
CmdPlayAdd ==
    /\ NotAudio
    /\ UNCHANGED callback_vars
    /\ cmd_pc = "add"
    /\ mutex = "none"
    /\ LET name == StreamNameOf(cmd_cur)
           r == MixerAddStream(mixer_streams, streams, name, cmd_obj)
       IN  /\ mixer_streams' = r.mixer
           /\ streams' = r.heap
           /\ cmd_wrote' = [registered |-> r.heap # streams, locked |-> TRUE]
           /\ fade_out_asked' =
                 IF r.heap # streams
                 THEN fade_out_asked \cup {mixer_streams[name]}
                 ELSE fade_out_asked
    /\ cmd_pc' = "fade"
    /\ UNCHANGED <<audio_q, mutex, cmd_cur, cmd_obj, cb_pc, mixer_calls>>

\* PLAY_*: audio.set_fade(1.0, fade_ms)
CmdPlayFade ==
    /\ NotAudio
    /\ UNCHANGED callback_vars
    /\ cmd_pc = "fade"
    /\ streams' = [streams EXCEPT
                      ![cmd_obj] = StreamSetFade(@, 1000, cmd_cur.fade_ms)]
    /\ cmd_wrote' = [registered |-> cmd_obj \in Registered(mixer_streams),
                     locked |-> FALSE]
    /\ fade_out_asked' = fade_out_asked \ {cmd_obj}
    /\ cmd_pc' = "sweep"
    /\ UNCHANGED <<audio_q, mixer_streams, mutex, cmd_cur, cmd_obj, cb_pc,
                   mixer_calls>>

\* STOP_* and SET_VOLUME: mixer.get_stream(name)
CmdLookup ==
    /\ NotAudio
    /\ UNCHANGED callback_vars
    /\ cmd_pc = "lookup"
    /\ mutex = "none"
    /\ IF StreamNameOf(cmd_cur) \in DOMAIN mixer_streams
       THEN /\ cmd_obj' = mixer_streams[StreamNameOf(cmd_cur)]
            /\ cmd_pc' = IF cmd_cur.cmd_type = "SET_VOLUME" THEN "set_volume"
                         ELSE "set_fade"
       ELSE /\ cmd_obj' = NoObject
            /\ cmd_pc' = "sweep"
    /\ cmd_wrote' = WroteNothing
    /\ UNCHANGED <<audio_q, streams, mixer_streams, mutex, cmd_cur, cb_pc,
                   fade_out_asked, mixer_calls>>

\* SET_VOLUME: s.set_volume(volume)
CmdSetVolume ==
    /\ NotAudio
    /\ UNCHANGED callback_vars
    /\ cmd_pc = "set_volume"
    /\ streams' = [streams EXCEPT
                      ![cmd_obj] = StreamSetVolume(@, cmd_cur.volume)]
    /\ cmd_wrote' = [registered |-> cmd_obj \in Registered(mixer_streams),
                     locked |-> FALSE]
    /\ fade_out_asked' = fade_out_asked \ {cmd_obj}
    /\ cmd_pc' = "sweep"
    /\ UNCHANGED <<audio_q, mixer_streams, mutex, cmd_cur, cmd_obj, cb_pc,
                   mixer_calls>>

\* STOP_AMBIENT and STOP_HEARTBEAT: stream.set_fade(0.0, fade_ms)
CmdSetFade ==
    /\ NotAudio
    /\ UNCHANGED callback_vars
    /\ cmd_pc = "set_fade"
    /\ streams' = [streams EXCEPT
                      ![cmd_obj] = StreamSetFade(@, 0, cmd_cur.fade_ms)]
    /\ cmd_wrote' = [registered |-> cmd_obj \in Registered(mixer_streams),
                     locked |-> FALSE]
    /\ fade_out_asked' = fade_out_asked \cup {cmd_obj}
    /\ cmd_pc' = "sweep"
    /\ UNCHANGED <<audio_q, mixer_streams, mutex, cmd_cur, cmd_obj, cb_pc,
                   mixer_calls>>

\* FADE_ALL: mixer.fade_all(target, fade_ms)
CmdFadeAll ==
    /\ NotAudio
    /\ UNCHANGED callback_vars
    /\ cmd_pc = "fade_all"
    /\ mutex = "none"
    /\ streams' = MixerFadeAll(mixer_streams, streams, cmd_cur.target_volume,
                               cmd_cur.fade_ms)
    /\ cmd_wrote' = [registered |-> mixer_streams # EmptyMap, locked |-> TRUE]
    /\ fade_out_asked' =
          IF cmd_cur.target_volume <= 0
          THEN fade_out_asked \cup Registered(mixer_streams)
          ELSE fade_out_asked \ Registered(mixer_streams)
    /\ cmd_pc' = "sweep"
    /\ UNCHANGED <<audio_q, mixer_streams, mutex, cmd_cur, cmd_obj, cb_pc,
                   mixer_calls>>

\* STOP_ALL: mixer.stop_all(); _stream_cache.clear().  The objects are then
\* referenced by nothing.
CmdStopAll ==
    /\ NotAudio
    /\ UNCHANGED callback_vars
    /\ cmd_pc = "stop_all"
    /\ mutex = "none"
    /\ mixer_streams' = EmptyMap
    /\ streams' = EmptyMap
    /\ fade_out_asked' = {}
    /\ cmd_wrote' = WroteNothing
    /\ cmd_pc' = "sweep"
    /\ UNCHANGED <<audio_q, mutex, cmd_cur, cmd_obj, cb_pc, mixer_calls>>

\* the cleanup sweep of the main loop: every name whose stream is silent is
\* passed to mixer.remove_stream.  mixer.update(dt) before it is a no-op.
Sweep(m, heap) ==
    MapDrop(m, { n \in DOMAIN m : StreamIsSilent(heap[m[n]]) })

\* the cleanup sweep deleting from mixer._streams itself, without the lock
CmdSweepUnlocked ==
    /\ NotAudio
    /\ UNCHANGED callback_vars
    /\ cmd_pc = "sweep"
    /\ mixer_streams' = Sweep(mixer_streams, streams)
    /\ cmd_pc' = "get"
    \* the locals of _handle_command end with the call
    /\ cmd_cur' = NoCommand
    /\ cmd_obj' = NoObject
    /\ cmd_wrote' = WroteNothing
    /\ UNCHANGED <<audio_q, streams, mutex, cb_pc, fade_out_asked, mixer_calls>>

\* the cleanup sweep, through mixer.remove_stream
CmdSweep ==
    /\ NotAudio
    /\ UNCHANGED callback_vars
    /\ cmd_pc = "sweep"
    /\ mutex = "none"
    /\ mixer_streams' = Sweep(mixer_streams, streams)
    /\ cmd_pc' = "get"
    \* the locals of _handle_command end with the call
    /\ cmd_cur' = NoCommand
    /\ cmd_obj' = NoObject
    /\ cmd_wrote' = WroteNothing
    /\ UNCHANGED <<audio_q, streams, mutex, cb_pc, fade_out_asked, mixer_calls>>

\* what became of the callback's latest call
CallbackRunning == [raised |-> FALSE, escaped |-> FALSE]

\* _audio_callback: mixer.mix(frames) takes the lock
MixBegin ==
    /\ NotAudio
    /\ cb_pc = "idle"
    /\ mutex = "none"
    /\ mutex' = "callback"
    /\ cb_pc' = "mixing"
    \* the device buffer of this call holds whatever it held before
    /\ outdata' = "stale"
    /\ cb_result' = CallbackRunning
    /\ cmd_wrote' = WroteNothing
    /\ UNCHANGED <<audio_q, streams, mixer_streams, cmd_pc, cmd_cur, cmd_obj,
                   fade_out_asked, mixer_calls>>

\* mixer.mix(frames): every stream is updated, and the lock is released
MixRun ==
    /\ NotAudio
    /\ cb_pc = "mixing"
    /\ streams' = MixerMix(mixer_streams, streams, MixDtMs)
    /\ mutex' = "none"
    /\ cb_pc' = "idle"
    \* outdata[:] = mixed
    /\ outdata' = "mixed"
    /\ cb_result' = CallbackRunning
    /\ cmd_wrote' = WroteNothing
    /\ UNCHANGED <<audio_q, mixer_streams, cmd_pc, cmd_cur, cmd_obj,
                   fade_out_asked, mixer_calls>>

\* mixer.mix(frames) raises somewhere in its loop, after none or all of the
\* stream.update(dt) calls (a stream object whose get_samples fails, say).
\* The with statement releases the lock; _audio_callback has no handler, so
\* "outdata[:] = mixed" is not reached and the exception leaves the
\* callback.  Whether the device calls the callback again after that is up
\* to sounddevice.
MixRaise ==
    /\ NotAudio
    /\ cb_pc = "mixing"
    /\ streams' \in {streams, MixerMix(mixer_streams, streams, MixDtMs)}
    /\ mutex' = "none"
    /\ cb_pc' \in {"idle", "aborted"}
    /\ outdata' = outdata
    /\ cb_result' = [raised |-> TRUE, escaped |-> TRUE]
    /\ cmd_wrote' = WroteNothing
    /\ UNCHANGED <<audio_q, mixer_streams, cmd_pc, cmd_cur, cmd_obj,
                   fade_out_asked, mixer_calls>>

\* the audio process after its start-up, with the stream objects of heap
AudioInit(heap) ==
    /\ audio_q = <<>>
    /\ streams = heap
    /\ mixer_streams = EmptyMap
    /\ mutex = "none"
    /\ cmd_pc = "get"
    /\ cmd_cur = NoCommand
    /\ cmd_obj = NoObject
    /\ cb_pc = "idle"
    /\ cmd_wrote = WroteNothing
    /\ fade_out_asked = {}
    /\ mixer_calls = <<>>
    /\ outdata = "stale"
    /\ cb_result = CallbackRunning

(***************************************************************************)
(* SpecSystem: the brain loop feeding the audio process                    *)
(***************************************************************************)
\* the faces and tick lengths of the joint model
SysReadResults == {FaceDataNew, RawFace(90)}
SysFaces == { Face(130, InR1, 90), Face(130, Outside, 90),
              Face(250, InR1, 90), Face(320, Outside, 90) }
SysDts == {2000}

\* one iteration of the brain loop; its commands go onto the audio queue
SysTick ==
    /\ UNCHANGED <<seqlock_vars, stall_vars, call_vars, coord_vars, thread_vars, gallery_vars, fade_vars>>
    /\ ticks < MaxSysTicks
    /\ \E raw \in SysReadResults, dt \in SysDts :
        \E smoothed \in (IF raw.num_faces = 0 THEN {raw} ELSE SysFaces) :
            TickBody(raw, smoothed, dt)
    /\ audio_q' = audio_q \o tick_audio'
    /\ Len(audio_q') <= MaxQueueLen
    /\ UNCHANGED <<streams, mixer_streams, mutex, cmd_pc, cmd_cur, cmd_obj,
                   cb_pc, cmd_wrote, fade_out_asked, mixer_calls>>
    /\ UNCHANGED callback_vars

NextSystem ==
    \/ SysTick
    \/ CmdGet
    \/ CmdPlayCreate
    \/ CmdPlayAdd
    \/ CmdPlayFade
    \/ CmdLookup
    \/ CmdSetVolume
    \/ CmdSetFade
    \/ CmdFadeAll
    \/ CmdStopAll
    \/ CmdSweep
    \/ MixBegin
    \/ MixRun

(***************************************************************************)
(* SpecDispatch: the audio process fed with any commands                   *)
(***************************************************************************)
DispatchCommands ==
    { [cmd_type |-> "PLAY_AMBIENT", file_path |-> f, fade_ms |-> 1000,
       loop |-> TRUE] : f \in {"amb.wav", "corrupt.wav"} }
    \cup { [cmd_type |-> "PLAY_HEARTBEAT", file_path |-> f, region_id |-> r,
            fade_ms |-> 500, loop |-> TRUE, bass_boost |-> TRUE] :
               f \in {"hb.wav", "corrupt.wav"}, r \in {"r1", "r2"} }
    \cup { StopHeartbeat("r1"), SetVolume("heartbeat_r1", 500), StopAll }

\* cmd_queue.put(cmd) by the parent process
DispatchPut ==
    /\ NotAudio
    /\ UNCHANGED callback_vars
    /\ Len(mixer_calls) < MaxMixerCalls
    /\ Len(audio_q) < MaxQueueLen
    /\ \E cmd \in DispatchCommands :
        /\ audio_q' = Append(audio_q, cmd)
        /\ mixer_calls' = Append(mixer_calls, [op |-> "put"])
    /\ cmd_wrote' = WroteNothing
    /\ UNCHANGED <<streams, mixer_streams, mutex, cmd_pc, cmd_cur, cmd_obj,
                   cb_pc, fade_out_asked>>

NextDispatch ==
    \/ DispatchPut
    \/ CmdGet
    \/ CmdPlayCreate
    \/ CmdPlayAdd
    \/ CmdPlayFade
    \/ CmdLookup
    \/ CmdSetVolume
    \/ CmdSetFade
    \/ CmdStopAll
    \/ CmdSweep
    \/ MixBegin
    \/ MixRun

(***************************************************************************)
(* SpecRace: SET_VOLUME against mix(), attribute access by attribute       *)
(* access.  The interpreter may switch threads between any two bytecodes,  *)
(* so every read and every write of a stream attribute is a step.  mix()   *)
(* holds the mixer lock throughout; s.set_volume(volume) in the handler    *)
(* runs on the object get_stream returned, after the lock was released.    *)
(***************************************************************************)
NotRace ==
    UNCHANGED <<seqlock_vars, fsm_vars, brain_vars, stall_vars, call_vars,
                coord_vars, gallery_vars, fade_vars>>

TmpNone == [cb |-> 0, cmd |-> 0]

RaceCommands ==
    { [cmd_type |-> "PLAY_AMBIENT", file_path |-> "amb.wav", fade_ms |-> 1000,
       loop |-> TRUE] }
    \cup { SetVolume("ambient", v) : v \in {0, 500, 1500} }

\* cmd_queue.put(cmd) by the parent process
RacePut ==
    /\ NotRace
    /\ UNCHANGED <<callback_vars, thread_vars, gallery_vars>>
    /\ Len(mixer_calls) < MaxMixerCalls
    /\ Len(audio_q) < MaxQueueLen
    /\ \E cmd \in RaceCommands :
        /\ audio_q' = Append(audio_q, cmd)
        /\ mixer_calls' = Append(mixer_calls, [op |-> "put"])
    /\ cmd_wrote' = WroteNothing
    /\ UNCHANGED <<streams, mixer_streams, mutex, cmd_pc, cmd_cur, cmd_obj,
                   cb_pc, fade_out_asked>>

\* AudioStream.set_volume on the command thread:
\*     self._volume = max(0.0, min(1.0, float(volume)))
\*     self._fade_target = self._volume
\*     self._fading = False
SetVolumeStep ==
    /\ NotRace
    /\ UNCHANGED callback_vars
    /\ \/ /\ cmd_pc = "set_volume"
          /\ streams' = [streams EXCEPT
                            ![cmd_obj].volume = Clamp01(cmd_cur.volume)]
          /\ cmd_pc' = "sv_read"
          /\ UNCHANGED tmp
       \/ /\ cmd_pc = "sv_read"
          /\ tmp' = [tmp EXCEPT !.cmd = streams[cmd_obj].volume]
          /\ cmd_pc' = "sv_target"
          /\ UNCHANGED streams
       \/ /\ cmd_pc = "sv_target"
          /\ streams' = [streams EXCEPT ![cmd_obj].fade_target = tmp.cmd]
          /\ cmd_pc' = "sv_fading"
          /\ UNCHANGED tmp
       \/ /\ cmd_pc = "sv_fading"
          /\ streams' = [streams EXCEPT ![cmd_obj].fading = FALSE]
          /\ cmd_pc' = "sweep"
          /\ UNCHANGED tmp
    /\ cmd_wrote' = [registered |-> cmd_obj \in Registered(mixer_streams),
                     locked |-> FALSE]
    /\ fade_out_asked' = fade_out_asked \ {cmd_obj}
    /\ UNCHANGED <<audio_q, mixer_streams, mutex, cmd_cur, cmd_obj, cb_pc,
                   mixer_calls>>

\* mix() with no stream registered: the loop body is not entered
MixNothing ==
    /\ NotRace
    /\ UNCHANGED <<callback_vars, thread_vars, gallery_vars>>
    /\ cb_pc = "mixing"
    /\ mixer_streams = EmptyMap
    /\ cb_pc' = "mixed"
    /\ cmd_wrote' = WroteNothing
    /\ UNCHANGED <<audio_q, streams, mixer_streams, mutex, cmd_pc, cmd_cur,
                   cmd_obj, fade_out_asked, mixer_calls>>

\* AudioStream.update(dt) on the callback thread, called by mix():
\*     if not self._fading: return
\*     self._volume += self._fade_rate * dt
\*     if self._fade_rate > 0 and self._volume >= self._fade_target: ...
\*     elif self._fade_rate < 0 and self._volume <= self._fade_target: ...
\*         self._volume = self._fade_target; self._fading = False
\*     self._volume = max(0.0, min(1.0, self._volume))
\* What mix() does with the stream afterwards only reads it.
UpdateStep ==
    /\ NotRace
    /\ UNCHANGED callback_vars
    /\ \E o \in Registered(mixer_streams) :
        \/ /\ cb_pc = "mixing"
           /\ cb_pc' = IF streams[o].fading THEN "upd_read" ELSE "mixed"
           /\ UNCHANGED <<streams, tmp>>
        \/ /\ cb_pc = "upd_read"
           /\ tmp' = [tmp EXCEPT !.cb = streams[o].volume
                         + (streams[o].fade_rate * MixDtMs) \div 1000]
           /\ cb_pc' = "upd_store"
           /\ UNCHANGED streams
        \/ /\ cb_pc = "upd_store"
           /\ streams' = [streams EXCEPT ![o].volume = tmp.cb]
           /\ cb_pc' = "upd_compare"
           /\ UNCHANGED tmp
        \/ /\ cb_pc = "upd_compare"
           /\ tmp' = [tmp EXCEPT !.cb = streams[o].volume]
           /\ cb_pc' = "upd_target"
           /\ UNCHANGED streams
        \/ /\ cb_pc = "upd_target"
           /\ cb_pc' =
                 IF \/ streams[o].fade_rate > 0
                       /\ tmp.cb >= streams[o].fade_target
                    \/ streams[o].fade_rate < 0
                       /\ tmp.cb <= streams[o].fade_target
                 THEN "upd_reach" ELSE "upd_clamp"
           /\ UNCHANGED <<streams, tmp>>
        \/ /\ cb_pc = "upd_reach"
           /\ streams' = [streams EXCEPT ![o].volume = streams[o].fade_target]
           /\ cb_pc' = "upd_unfade"
           /\ UNCHANGED tmp
        \/ /\ cb_pc = "upd_unfade"
           /\ streams' = [streams EXCEPT ![o].fading = FALSE]
           /\ cb_pc' = "upd_clamp"
           /\ UNCHANGED tmp
        \/ /\ cb_pc = "upd_clamp"
           /\ tmp' = [tmp EXCEPT !.cb = Clamp01(streams[o].volume)]
           /\ cb_pc' = "upd_clamped"
           /\ UNCHANGED streams
        \/ /\ cb_pc = "upd_clamped"
           /\ streams' = [streams EXCEPT ![o].volume = tmp.cb]
           /\ cb_pc' = "mixed"
           /\ UNCHANGED tmp
    /\ cmd_wrote' = WroteNothing
    /\ UNCHANGED <<audio_q, mixer_streams, mutex, cmd_pc, cmd_cur, cmd_obj,
                   fade_out_asked, mixer_calls>>

\* mix() returns: the lock is released, and outdata[:] = mixed
MixEnd ==
    /\ NotRace
    /\ UNCHANGED <<thread_vars, gallery_vars>>
    /\ cb_pc = "mixed"
    /\ mutex' = "none"
    /\ cb_pc' = "idle"
    /\ outdata' = "mixed"
    /\ cb_result' = CallbackRunning
    /\ cmd_wrote' = WroteNothing
    /\ UNCHANGED <<audio_q, streams, mixer_streams, cmd_pc, cmd_cur, cmd_obj,
                   fade_out_asked, mixer_calls>>

NextRace ==
    \/ RacePut
    \/ CmdGet
    \/ CmdPlayCreate
    \/ CmdPlayAdd
    \/ CmdPlayFade
    \/ CmdLookup
    \/ SetVolumeStep
    \/ CmdSweep
    \/ MixBegin
    \/ MixNothing
    \/ UpdateStep
    \/ MixEnd

(***************************************************************************)
(* SpecMixer: the mixer called directly, as its owner may: streams are     *)
(* prepared while the mixer does not hold them, added under a name, mixed  *)
(* by the callback thread and swept by remove_inactive                     *)
(***************************************************************************)
MixerObjects == {"s1", "s2"}
MixerNames == {"ambient"}

\* stream.set_volume / stream.set_fade on a stream the mixer does not hold
StreamPrepare ==
    /\ NotAudio
    /\ UNCHANGED callback_vars
    /\ Len(mixer_calls) < MaxMixerCalls
    /\ \E o \in DOMAIN streams \ Registered(mixer_streams) :
        /\ \/ \E v \in {0, 500, 1000} :
                 streams' = [streams EXCEPT ![o] = StreamSetVolume(@, v)]
           \/ streams' = [streams EXCEPT ![o] = StreamSetFade(@, 1000, 1000)]
        /\ mixer_calls' = Append(mixer_calls, [op |-> "prepare", stream |-> o])
        /\ fade_out_asked' = fade_out_asked \ {o}
    /\ cmd_wrote' = WroteNothing
    /\ UNCHANGED <<audio_q, mixer_streams, mutex, cmd_pc, cmd_cur, cmd_obj,
                   cb_pc>>

\* mixer.add_stream(name, stream)
MixerAdd ==
    /\ NotAudio
    /\ UNCHANGED callback_vars
    /\ Len(mixer_calls) < MaxMixerCalls
    /\ mutex = "none"
    /\ \E name \in MixerNames, o \in DOMAIN streams :
        LET r == MixerAddStream(mixer_streams, streams, name, o)
        IN  /\ mixer_streams' = r.mixer
            /\ streams' = r.heap
            /\ cmd_wrote' = [registered |-> r.heap # streams, locked |-> TRUE]
            /\ fade_out_asked' =
                  IF r.heap # streams
                  THEN fade_out_asked \cup {mixer_streams[name]}
                  ELSE fade_out_asked
            /\ mixer_calls' = Append(mixer_calls,
                  [op |-> "add_stream", name |-> name, stream |-> o])
    /\ UNCHANGED <<audio_q, mutex, cmd_pc, cmd_cur, cmd_obj, cb_pc>>

\* mixer.remove_inactive()
RemoveInactive ==
    /\ NotAudio
    /\ UNCHANGED callback_vars
    /\ mutex = "none"
    /\ mixer_streams' = MixerRemoveInactive(mixer_streams, streams)
    /\ cmd_wrote' = WroteNothing
    /\ UNCHANGED <<audio_q, streams, mutex, cmd_pc, cmd_cur, cmd_obj, cb_pc,
                   fade_out_asked, mixer_calls>>

NextMixer ==
    \/ StreamPrepare
    \/ MixerAdd
    \/ RemoveInactive
    \/ MixBegin
    \/ MixRun

(***************************************************************************)
(* SpecCallback: the mixer and the device callback, with mix() calls that  *)
(* may raise                                                               *)
(***************************************************************************)
NextCallback ==
    \/ StreamPrepare
    \/ MixerAdd
    \/ RemoveInactive
    \/ MixBegin
    \/ MixRun
    \/ MixRaise


(***************************************************************************)
(* SpecMixBuffer: the buffer AudioMixer.mix computes.  A float32 is a      *)
(* finite number in thousandths, an infinity with its sign, or a NaN; one  *)
(* sample of one channel stands for the frames of a buffer, numpy working  *)
(* element by element.  Finite sums stay far below the float32 maximum.    *)
(***************************************************************************)
Num(v) == [kind |-> "num", v |-> v]
Inf(sign) == [kind |-> "inf", v |-> sign]
NaN == [kind |-> "nan", v |-> 0]

Sign(v) == IF v > 0 THEN 1 ELSE IF v < 0 THEN 0 - 1 ELSE 0

\* a * b of IEEE 754: inf * 0 is NaN
FMul(a, b) ==
    IF a.kind = "nan" \/ b.kind = "nan" THEN NaN
    ELSE IF a.kind = "inf" \/ b.kind = "inf"
        THEN IF a.v = 0 \/ b.v = 0 THEN NaN ELSE Inf(Sign(a.v) * Sign(b.v))
    ELSE Num((a.v * b.v) \div 1000)

\* a + b of IEEE 754: inf + (-inf) is NaN
FAdd(a, b) ==
    IF a.kind = "nan" \/ b.kind = "nan" THEN NaN
    ELSE IF a.kind = "inf" /\ b.kind = "inf"
        THEN IF a.v = b.v THEN a ELSE NaN
    ELSE IF a.kind = "inf" THEN a
    ELSE IF b.kind = "inf" THEN b
    ELSE Num(a.v + b.v)

\* np.clip(x, -1.0, 1.0), that is minimum(maximum(x, -1.0), 1.0), both of
\* which hand a NaN on
FClip(a) ==
    IF a.kind = "nan" THEN NaN
    ELSE IF a.kind = "inf" THEN Num(a.v * 1000)
    ELSE Num(Max(0 - 1000, Min(1000, a.v)))

\* the loop of mix over the values of _streams: ss[k].stream is the stream
\* object, ss[k].sample what its get_samples returns
RECURSIVE MixSum(_, _, _)
MixSum(ss, dt, buf) ==
    IF ss = <<>> THEN buf
    ELSE LET s == StreamUpdate(Head(ss).stream, dt)
         IN  MixSum(Tail(ss), dt,
                    IF ~StreamIsActive(s) \/ s.volume <= 0 THEN buf
                    ELSE FAdd(buf, FMul(Head(ss).sample, Num(s.volume))))

\* mix: buf *= self._master_volume; np.clip(buf, -1.0, 1.0, out=buf)
MixBuffer(ss, dt, master_volume) ==
    FClip(FMul(MixSum(ss, dt, Num(0)), Num(master_volume)))

\* sample values of a decoded file: silence, full scale either way, a
\* bass-boosted sample beyond full scale, and what a 32-bit float WAV can
\* also hold
MixSamples == { Num(0), Num(0 - 1000), Num(700), Num(1000), Num(2500),
                Inf(1), Inf(0 - 1), NaN }

\* streams at a set volume or within a fade
MixStreams ==
    { [StreamSetVolume(StreamNew, v) EXCEPT !.finished = f] :
          v \in {0, 500, 1000}, f \in BOOLEAN }
    \cup { StreamSetFade(StreamSetVolume(StreamNew, 1000), 0, 1000),
           StreamSetFade(StreamNew, 1000, 1000) }

MixEntries == [stream : MixStreams, sample : MixSamples]

MaxMixStreams == 2

\* set_master_volume(volume) on a new mixer, then mix(num_frames)
MixCall ==
    /\ calls = <<>>
    /\ \E n \in 0 .. MaxMixStreams, volume \in {0 - 500, 0, 500, 1000, 1500} :
        \E ss \in [1 .. n -> MixEntries] :
            calls' = << [ streams |-> ss,
                          master_volume |-> Clamp01(volume),
                          buffer |-> MixBuffer(ss, MixDtMs, Clamp01(volume)) ] >>
    /\ UNCHANGED <<seqlock_vars, fsm_vars, brain_vars, stall_vars, audio_vars,
                   callback_vars, fade_vars, coord_vars,
                   thread_vars, gallery_vars>>

NextMixBuffer == MixCall

(***************************************************************************)
(* SpecRemove: AudioMixer.remove_inactive called twice in a row on a mixer *)
(* with any registered streams                                             *)
(***************************************************************************)
\* streams at rest, audible, fading in, fading out, and finished ones (a
\* file without frames, or a stream created with loop=False that ran out)
RemoveStreams ==
    { [StreamSetVolume(StreamNew, v) EXCEPT !.finished = f] :
          v \in {0, 500}, f \in BOOLEAN }
    \cup { StreamSetFade(StreamSetVolume(StreamNew, 1000), 0, 1000),
           StreamSetFade(StreamNew, 1000, 1000),
           [StreamSetFade(StreamNew, 1000, 1000) EXCEPT !.finished = TRUE] }

RemoveNames == {"ambient", "heartbeat_r1", RetireName("ambient", "s1")}

\* remove_inactive(); remove_inactive()
RemoveCall ==
    /\ calls = <<>>
    /\ \E heap \in [MixerObjects -> RemoveStreams], D \in SUBSET RemoveNames :
        \E m \in [D -> MixerObjects] :
            \E first \in {MixerRemoveInactive(m, heap)} :
                calls' = << [ heap |-> heap, streams |-> m, first |-> first,
                              second |-> MixerRemoveInactive(first, heap) ] >>
    /\ UNCHANGED <<seqlock_vars, fsm_vars, brain_vars, stall_vars, audio_vars,
                   callback_vars, fade_vars, coord_vars,
                   thread_vars, gallery_vars>>

NextRemove == RemoveCall
(***************************************************************************)
(* audio/audio_stream.py: the fade arithmetic in IEEE-754 binary64.        *)
(* A float is held exactly, as the integer hi * 2^30 + lo counting units   *)
(* of 2^-58; every float the model meets is a whole number of units.       *)
(* Python rounds the result of + and - to 53 significant bits, ties to     *)
(* even.  The fades of the model start at volume 0.0 or 1.0 and run to     *)
(* 0.0, 0.5 or 1.0 over 0.5, 1 or 2 seconds, so fade_rate is a power of    *)
(* two (with a sign) and fade_rate * dt is exact.                          *)
(***************************************************************************)
Limb == 2 ^ 30

F64(hi, lo) == [hi |-> hi, lo |-> lo]

F64Zero == F64(0, 0)
F64Half == F64(2 ^ 27, 0)
F64One == F64(2 ^ 28, 0)

\* a <= b
F64Leq(a, b) == a.hi < b.hi \/ (a.hi = b.hi /\ a.lo <= b.lo)

\* the exact sum and, for b <= a, the exact difference
ExactSum(a, b) ==
    F64(a.hi + b.hi + (a.lo + b.lo) \div Limb, (a.lo + b.lo) % Limb)

ExactDiff(a, b) ==
    IF a.lo >= b.lo THEN F64(a.hi - b.hi, a.lo - b.lo)
    ELSE F64(a.hi - b.hi - 1, a.lo + Limb - b.lo)

\* round to nearest, ties to even, at 53 significant bits: the spacing of
\* the floats around x, in units
Spacing(x) == IF BitLen(x.hi) > 23 THEN 2 ^ (BitLen(x.hi) - 23) ELSE 1

Round(x) ==
    LET g == Spacing(x)
        r == x.lo % g
        up == \/ 2 * r > g
              \/ 2 * r = g /\ (x.lo \div g) % 2 = 1
    IN  IF up THEN ExactSum(F64(x.hi, x.lo - r), F64(0, g))
        ELSE F64(x.hi, x.lo - r)

\* x * 2^j, exact
RECURSIVE Scale(_, _)
Scale(x, j) ==
    IF j = 0 THEN x
    ELSE IF j > 0 THEN Scale(ExactSum(x, x), j - 1)
    ELSE Scale(F64(x.hi \div 2, x.lo \div 2 + (x.hi % 2) * (Limb \div 2)), j + 1)

\* the floats of the fade targets, and the exponent of each
FadeTargets == {F64Zero, F64Half, F64One}

\* duration_ms / 1000.0 for the durations of the model: the exponent e of
\* the result 2^e
DurationExp(duration_ms) ==
    CASE duration_ms = 500 -> 0 - 1
      [] duration_ms = 1000 -> 0
      [] duration_ms = 2000 -> 1

FadeDurations == {500, 1000, 2000}

\* num_frames / sample_rate of mix() at 44100 Hz: 4410, 8820, 11025 and
\* 22050 frames give the floats nearest 0.1 and 0.2, and 0.25 and 0.5
MixFrames == {4410, 8820, 11025, 22050}

MixDt(num_frames) ==
    CASE num_frames = 4410 -> F64(26843545, 644245096)
      [] num_frames = 8820 -> F64(53687091, 214748368)
      [] num_frames = 11025 -> F64(2 ^ 26, 0)
      [] num_frames = 22050 -> F64(2 ^ 27, 0)

\* AudioStream after set_volume(volume) on a new stream
FloatStream(volume) ==
    [ volume |-> volume, fade_target |-> volume,
      fade_rate |-> [sign |-> 0, exp |-> 0], fading |-> FALSE ]

\* set_fade(target_volume, duration_ms).  The difference of the volume and
\* the target is 0, 0.5 or 1, so the rate is sign * 2^exp.
FloatSetFade(s, target_volume, duration_ms) ==
    IF s.volume = target_volume
    THEN [s EXCEPT !.fade_target = target_volume, !.fading = FALSE]
    ELSE LET up == F64Leq(s.volume, target_volume)
             diff == IF up THEN ExactDiff(target_volume, s.volume)
                     ELSE ExactDiff(s.volume, target_volume)
         IN  [s EXCEPT
                !.fade_target = target_volume,
                !.fade_rate =
                   [ sign |-> IF up THEN 1 ELSE 0 - 1,
                     exp |-> (IF diff = F64One THEN 0 ELSE 0 - 1)
                                - DurationExp(duration_ms) ],
                !.fading = TRUE]

\* update(dt):  self._volume += self._fade_rate * dt, the comparison with
\* the target, and the clamp
FloatUpdate(s, dt) ==
    IF ~s.fading THEN s
    ELSE LET step == Scale(dt, s.fade_rate.exp)
         IN  IF s.fade_rate.sign > 0
             THEN LET v == Round(ExactSum(s.volume, step))
                  IN  IF F64Leq(s.fade_target, v)
                      THEN [s EXCEPT !.volume = s.fade_target,
                                     !.fading = FALSE]
                      ELSE [s EXCEPT !.volume = v]
             ELSE IF F64Leq(s.volume, step)
                      \* the volume went to 0 or below
                  THEN [s EXCEPT !.volume = s.fade_target, !.fading = FALSE]
             ELSE LET v == Round(ExactDiff(s.volume, step))
                  IN  IF F64Leq(v, s.fade_target)
                      THEN [s EXCEPT !.volume = s.fade_target,
                                     !.fading = FALSE]
                      ELSE [s EXCEPT !.volume = v]

(***************************************************************************)
(* SpecFade: one stream, one set_fade, and the mix() calls after it        *)
(***************************************************************************)
\* no stream under study
FadeNone ==
    /\ fade_req = [target_volume |-> F64Zero, duration_ms |-> 0]
    /\ fstream = FloatStream(F64Zero)
    /\ fade_elapsed = F64Zero
    /\ fade_updates = 0

\* a stream at volume 0.0 or 1.0 on which set_fade(v, d) has been called
FadeInit ==
    \E start \in {F64Zero, F64One}, v \in FadeTargets, d \in FadeDurations :
        /\ fade_req = [target_volume |-> v, duration_ms |-> d]
        /\ fstream = FloatSetFade(FloatStream(start), v, d)
        /\ fade_elapsed = F64Zero
        /\ fade_updates = 0

\* mixer.mix(num_frames): stream.update(num_frames / sample_rate)
FadeMix ==
    /\ NotFade
    /\ fade_updates < MaxUpdates
    /\ \E num_frames \in MixFrames :
          /\ fstream' = FloatUpdate(fstream, MixDt(num_frames))
          /\ fade_elapsed' = ExactSum(fade_elapsed, MixDt(num_frames))
    /\ fade_updates' = fade_updates + 1
    /\ UNCHANGED fade_req

NextFade == FadeMix

(***************************************************************************)
(* brain/coordinator.py: start() and _shutdown().  The main process starts *)
(* the three children, runs run_brain and, in a finally clause, shuts      *)
(* down.  What an iteration of the brain loop puts on the queues is left   *)
(* open here (any command or none); the child processes are alive or not,  *)
(* and a child may stop at any moment, by itself or because it read its    *)
(* SHUTDOWN.                                                               *)
(***************************************************************************)
NotCoord ==
    UNCHANGED <<seqlock_vars, fsm_vars, brain_vars, stall_vars, call_vars,
                thread_vars, gallery_vars,
                audio_vars, callback_vars, fade_vars>>

\* the children in the order start() starts them
ProcNames == <<"sf-vision", "sf-display", "sf-audio">>

\* _JOIN_TIMEOUT_S, and the timeout of the join after terminate()
JOIN_TIMEOUT_MS == 5000
TERMINATE_JOIN_TIMEOUT_MS == 2000

\* join() without a timeout
NoTimeout == 0 - 1

\* iterations of the brain loop
MaxLoopIters == 2

CoordNew ==
    [ pc |-> "start", cause |-> "none", iters |-> 0,
      display_q |-> <<>>, audio_q |-> <<>>, vision_q |-> <<>>,
      processes |-> <<>>, alive |-> {}, join_i |-> 0,
      joins |-> <<>>, stragglers |-> {}, terminated |-> {} ]

\* run_brain is left and the finally clause of start() begins
EndBrain(c, cause) == [c EXCEPT !.pc = "put_display", !.cause = cause]

\* start(): the three Process(...).start() calls succeed
StartChildren ==
    /\ NotCoord
    /\ coord.pc = "start"
    /\ coord' = [coord EXCEPT !.processes = ProcNames,
                              !.alive = {"sf-vision", "sf-display", "sf-audio"},
                              !.pc = "connect"]

\* start(): a start() call raises after n children were started
StartFails ==
    /\ NotCoord
    /\ coord.pc = "start"
    /\ \E n \in 0 .. 2 :
        coord' = EndBrain([coord EXCEPT
                     !.processes = SubSeq(ProcNames, 1, n),
                     !.alive = { ProcNames[k] : k \in 1 .. n }],
                     "start_failed")

\* a child process stops
ChildStops ==
    /\ NotCoord
    /\ coord.pc # "done"
    /\ \E p \in coord.alive : coord' = [coord EXCEPT !.alive = @ \ {p}]

\* run_brain: shm_reader.connect(timeout=_SHM_CONNECT_TIMEOUT_S)
Connect ==
    /\ NotCoord
    /\ coord.pc = "connect"
    /\ \/ coord' = [coord EXCEPT !.pc = "scan"]
       \/ coord' = EndBrain(coord, "no_region")

\* run_brain: image_mgr.scan(), then _send_load_image
Scan ==
    /\ NotCoord
    /\ coord.pc = "scan"
    /\ \/ coord' = EndBrain(coord, "no_images")
       \/ coord' = [coord EXCEPT !.display_q = Append(@, "LOAD_IMAGE"),
                                 !.pc = "loop"]

\* one iteration of the while loop, through the liveness check at its end
LoopIteration ==
    /\ NotCoord
    /\ coord.pc = "loop"
    /\ coord.iters < MaxLoopIters
    /\ \E d \in {<<>>, <<"SET_PARALLAX">>}, a \in {<<>>, <<"SET_VOLUME">>} :
        \E c \in {[coord EXCEPT !.display_q = @ \o d, !.audio_q = @ \o a,
                                !.iters = @ + 1]} :
            coord' = IF \E k \in 1 .. Len(c.processes) :
                            c.processes[k] \notin c.alive
                     THEN EndBrain(c, "dead_child")
                     ELSE c

\* KeyboardInterrupt or another exception inside run_brain; before the try
\* statement it is start() that catches it, within it run_brain does
Raise ==
    /\ NotCoord
    /\ coord.pc \in {"connect", "scan", "loop"}
    /\ \E cause \in {"keyboard_interrupt", "exception"} :
        coord' = EndBrain(coord, cause)

\* _shutdown: q.put(Command(SHUTDOWN)) for display_q and audio_q
PutShutdown ==
    /\ NotCoord
    /\ \/ /\ coord.pc = "put_display"
          /\ coord' = [coord EXCEPT !.display_q = Append(@, "SHUTDOWN"),
                                    !.pc = "put_audio"]
       \/ /\ coord.pc = "put_audio"
          /\ coord' = [coord EXCEPT !.audio_q = Append(@, "SHUTDOWN"),
                                    !.pc = "put_vision"]

\* _shutdown: vision_q.put("SHUTDOWN"), then the loop over the processes
PutVision ==
    /\ NotCoord
    /\ coord.pc = "put_vision"
    /\ coord' = [coord EXCEPT !.vision_q = Append(@, "SHUTDOWN"),
                              !.join_i = 1,
                              !.pc = IF coord.processes = <<>> THEN "done"
                                                               ELSE "join"]

\* the for loop goes on with the next process
NextProc(c) ==
    [c EXCEPT !.join_i = @ + 1,
              !.pc = IF c.join_i = Len(c.processes) THEN "done" ELSE "join"]

\* a join that waits for the child however long it takes
JoinUnbounded ==
    /\ NotCoord
    /\ coord.pc = "join"
    /\ coord.processes[coord.join_i] \notin coord.alive
    /\ coord' = NextProc([coord EXCEPT !.joins = Append(@,
                    [proc |-> coord.processes[coord.join_i],
                     timeout_ms |-> NoTimeout])])

\* proc.join(timeout=_JOIN_TIMEOUT_S) returns, the child gone or the time
\* up; then "if proc.is_alive()"
Join ==
    /\ NotCoord
    /\ coord.pc = "join"
    /\ \E p \in {coord.processes[coord.join_i]} :
        \E c \in {[coord EXCEPT !.joins = Append(@,
                      [proc |-> p, timeout_ms |-> JOIN_TIMEOUT_MS])]} :
            coord' = IF p \in coord.alive
                     THEN [c EXCEPT !.stragglers = @ \cup {p},
                                    !.pc = "terminate"]
                     ELSE NextProc(c)

\* proc.terminate(); proc.join(timeout=2): the child ends on SIGTERM or
\* does not
Terminate ==
    /\ NotCoord
    /\ coord.pc = "terminate"
    /\ \E p \in {coord.processes[coord.join_i]} :
      \E gone \in SUBSET {p} :
        coord' = NextProc([coord EXCEPT
                     !.terminated = @ \cup {p},
                     !.alive = @ \ gone,
                     !.joins = Append(@, [proc |-> p,
                                 timeout_ms |-> TERMINATE_JOIN_TIMEOUT_MS])])

\* the steps of _shutdown
Shutdown == PutShutdown \/ PutVision \/ Join \/ Terminate

NextCoord ==
    \/ StartChildren
    \/ StartFails
    \/ ChildStops
    \/ Connect
    \/ Scan
    \/ LoopIteration
    \/ Raise
    \/ PutShutdown
    \/ PutVision
    \/ Join
    \/ Terminate

(***************************************************************************)
(* Claims about the seqlock                                                *)
(***************************************************************************)
\* the payload a returned sample was parsed from
Repack(sample) == <<sample.frame_counter, sample.num_faces,
                    sample.face_distance_cm>>

\* C1 (as stated): every sample read() returns is a payload that some
\* completed write() stored.
C1_ReturnedWasWritten ==
    r_ret # NoSample => Repack(r_ret) \in committed

\* C1 (amended): every sample read() returns is, word for word, either the
\* zero-filled payload the fresh segment holds or a payload that some
\* completed write() stored; it is never a mixture of two payloads.
C1_ReturnedWasWrittenOrInitial ==
    r_ret # NoSample => Repack(r_ret) \in committed \cup {ZeroPayload}

\* a read returned the second frame written while a later write is storing
C1_Witness ==
    /\ r_ret # NoSample
    /\ Repack(r_ret) \in committed
    /\ r_ret.frame_counter = 2
    /\ w_pc = "store"
    /\ w_idx = 2

\* C2 (as stated): a returned sample's frame counter is strictly greater than
\* that of the sample returned before it.
C2_FrameStrictlyGreater ==
    (r_ret # NoSample /\ r_prev_frame # NoFrame)
        => r_ret.frame_counter > r_prev_frame

\* C2 (amended): a returned sample's frame counter differs from that of the
\* sample returned before it and is later in the writer's order, that is,
\* strictly greater modulo the counter's width.
C2_FrameLaterModulo ==
    (r_ret # NoSample /\ r_prev_frame # NoFrame)
        => /\ r_ret.frame_counter # r_prev_frame
           /\ (r_ret.frame_counter - r_prev_frame) % U32 \in 1 .. MaxWrites + 1

\* two writes completed between two reads: the second read returned the
\* later frame and skipped the earlier one
C2_Witness ==
    /\ r_ret # NoSample
    /\ r_prev_frame # NoFrame
    /\ r_ret.frame_counter = (r_prev_frame + 2) % U32
    /\ writes >= 2

\* the fields of the sample a read() returned
Fields(sample) == [frame_counter |-> sample.frame_counter,
                   num_faces |-> sample.num_faces,
                   face_distance_cm |-> sample.face_distance_cm]

\* C21 (as stated): after a write(d) has completed, and for as long as no
\* other write begins, the first read() returns exactly the fields of d and
\* every later read() returns None.
C21_FirstReadReturnsData ==
    /\ quiet_reads = "one" => (r_ret # NoSample /\ Fields(r_ret) = w_data)
    /\ quiet_reads = "many" => r_ret = NoSample

\* C21 (amended): after a write(d) has completed, and for as long as no other
\* write begins, the first read() returns the fields of d as the record
\* holds them, the integer fields as they are and the float fields rounded
\* to the nearest 32-bit float, and every later read() returns None.
C21_FirstReadReturnsRecord ==
    /\ quiet_reads = "one" =>
          /\ r_ret # NoSample
          /\ Fields(r_ret) =
                [w_data EXCEPT !.face_distance_cm = PackF32(@)]
    /\ quiet_reads = "many" => r_ret = NoSample

\* the third frame was written with a distance that is no 32-bit float, read
\* once, and read again
C21_Witness ==
    /\ quiet_reads = "many"
    /\ r_pc = "idle"
    /\ w_data # NoSample
    /\ w_data.face_distance_cm = 357913941
    /\ last_frame = w_data.frame_counter
    /\ writes = 3

\* a read() call loads an odd counter
ReadsOddCounter ==
    /\ r_pc = "idle"
    /\ shm_seq % 2 = 1
    /\ reader_vars' # reader_vars

\* the latest write() replaced a payload that no read() had returned
ReplacedUnread ==
    /\ w_data # NoSample
    /\ (w_data.frame_counter + U32 - 1) % U32 \in skipped

\* C22: a read() that loads an odd seqlock counter returns None and leaves
\* the reader's last-returned frame counter as it was; when two writes
\* complete between two consecutive read() calls, the later read() returns
\* the sample of the second write, and the sample of the first write is
\* never returned.
C22_OddCounterAndLatestOnly ==
    /\ [][ReadsOddCounter =>
             /\ r_ret' = NoSample
             /\ last_frame' = last_frame
             /\ r_pc' = "idle"]_vars
    /\ []((quiet_reads = "one" /\ ReplacedUnread) =>
             /\ r_ret # NoSample
             /\ Repack(r_ret) = Pack(w_data.frame_counter, w_data))
    /\ [](r_ret # NoSample => r_ret.frame_counter \notin skipped)
    /\ [](last_frame \notin skipped)

\* two writes returned between two read() calls, and the second read()
\* returned the frame of the second write
C22_Witness ==
    /\ quiet_reads = "one"
    /\ ReplacedUnread
    /\ r_ret # NoSample
    /\ r_prev_frame # NoFrame
    /\ r_ret.frame_counter = (r_prev_frame + 2) % U32
    /\ r_ret.frame_counter = w_data.frame_counter

(***************************************************************************)
(* The counter around write(), a failed write included                     *)
(***************************************************************************)
\* the steps of a write() whose struct.pack raises: the call begins, pack
\* raises, the finally clause ends the call without a store
FailedWriteStep ==
    \/ w_pc = "idle" /\ w_pc' = "pack"
    \/ w_pc = "pack" /\ w_pc' = "even"
    \/ w_pc = "even" /\ w_pc' = "idle" /\ ~w_stored

C32_Step ==
    /\ w_pc' = "idle" => shm_seq' % 2 = 0
    /\ (w_pc = "idle" /\ w_pc' # "idle") => shm_seq' = (shm_seq + 1) % U32
    /\ (w_pc # "idle" /\ w_pc' = "idle") => shm_seq' = (shm_seq + 1) % U32
    /\ ((w_pc = "idle") <=> (w_pc' = "idle")) => shm_seq' = shm_seq
    /\ FailedWriteStep => shm_payload' = shm_payload

\* C32: whenever write() is not executing the shared counter is even; from
\* the entry of a write() to its end, by return or by the exception of a
\* failed pack, the counter goes up by 1, stays, and goes up by 1 again,
\* modulo 2^32; no step of a write() whose pack fails changes the payload.
C32_CounterEvenOutsideWrite ==
    /\ (w_pc = "idle" => shm_seq % 2 = 0)
    /\ [][C32_Step]_vars

\* a write() whose pack failed has ended, with the counter wrapped to 0
C32_Witness ==
    /\ w_pc = "idle"
    /\ writes = 2
    /\ quiet_reads = "busy"
    /\ shm_seq = 0
    /\ shm_payload = <<U32 - 1, 0, 0>>
(***************************************************************************)
(* Claims about the state machine alone                                    *)
(***************************************************************************)
AllowedTransitions ==
    { <<"IDLE", "PRESENCE">>,
      <<"PRESENCE", "ENGAGED">>,
      <<"PRESENCE", "WITHDRAWING">>,
      <<"ENGAGED", "CLOSE_INTERACTION">>,
      <<"ENGAGED", "WITHDRAWING">>,
      <<"CLOSE_INTERACTION", "ENGAGED">>,
      <<"CLOSE_INTERACTION", "WITHDRAWING">>,
      <<"WITHDRAWING", "IDLE">> }

\* C3: every state change update() makes is one of the eight transitions of
\* the table, and one update() call changes the state at most once: the
\* call's on_state_change notifications are none, or exactly the one change
\* from the state before the call to the state after it.
C3_TransitionsAllowed ==
    [][ /\ fsm'.state # fsm.state => fsm_in' # NoInput
        /\ fsm_in' # NoInput =>
              /\ Len(fsm'.changes) <= 1
              /\ \A i \in 1 .. Len(fsm'.changes) :
                    fsm'.changes[i] \in AllowedTransitions
              /\ fsm'.state # fsm.state
                    => fsm'.changes = << <<fsm.state, fsm'.state>> >>
              /\ fsm'.state = fsm.state => fsm'.changes = <<>> ]_vars

\* an update() withdrew from CLOSE_INTERACTION while a face was still close
C3_Witness ==
    /\ fsm.changes = << <<"CLOSE_INTERACTION", "WITHDRAWING">> >>
    /\ fsm_in # NoInput
    /\ fsm_in.num_faces > 0
    /\ fsm_in.face_distance_cm = 70

\* C4: an update() that starts in CLOSE_INTERACTION and finds neither the
\* face-lost nor the gaze-away timeout expired ends in ENGAGED when a face
\* is detected at a distance > min(1.5 * C_cm, P_cm) and in
\* CLOSE_INTERACTION otherwise; an update() that starts in ENGAGED with a
\* face detected at a distance < C_cm ends in CLOSE_INTERACTION.
C4_CloseHysteresis ==
    [][ fsm_in' # NoInput =>
          /\ ( /\ fsm.state = "CLOSE_INTERACTION"
               /\ fsm'.face_lost_timer < IDLE_FACE_LOST_TIMEOUT_MS
               /\ fsm'.gaze_away_timer < WITHDRAW_GAZE_AWAY_TIMEOUT_MS )
             => IF /\ fsm_in'.num_faces > 0
                   /\ 2 * fsm_in'.face_distance_cm >
                        Min(3 * fsm.close_distance_cm,
                            2 * fsm.presence_distance_cm)
                THEN fsm'.state = "ENGAGED"
                ELSE fsm'.state = "CLOSE_INTERACTION"
          /\ ( /\ fsm.state = "ENGAGED"
               /\ fsm_in'.num_faces > 0
               /\ fsm_in'.face_distance_cm < fsm.close_distance_cm )
             => fsm'.state = "CLOSE_INTERACTION" ]_vars

\* with C_cm = 80 and P_cm = 300 a face at 121 cm, just beyond 1.5 * C_cm,
\* took the state machine from CLOSE_INTERACTION back to ENGAGED
C4_Witness ==
    /\ fsm.changes = << <<"CLOSE_INTERACTION", "ENGAGED">> >>
    /\ fsm.close_distance_cm = 80
    /\ fsm.presence_distance_cm = 300
    /\ fsm_in # NoInput
    /\ fsm_in.face_distance_cm = 121

(***************************************************************************)
(* The transition table, row by row, for one kept call c.  The timers are  *)
(* the ones of the tick: face_lost_timer is 0 with a face and grows by dt  *)
(* without one, gaze_away_timer is 0 when a region is gazed at with        *)
(* enough confidence and grows by dt otherwise.                            *)
(***************************************************************************)
RowFace(c) == c.face_data.num_faces > 0

RowFaceLost(c) ==
    IF RowFace(c) THEN 0 ELSE c.before.face_lost_timer + c.dt

RowGazeThreshold(c) ==
    IF c.before.state \in {"ENGAGED", "CLOSE_INTERACTION"}
       /\ c.min_active_confidence > 0
    THEN c.min_active_confidence ELSE GAZE_MIN_CONFIDENCE

RowGazeAway(c) ==
    IF /\ c.active_regions # {}
       /\ RowFace(c)
       /\ c.face_data.gaze_confidence >= RowGazeThreshold(c)
    THEN 0 ELSE c.before.gaze_away_timer + c.dt

\* the rows of the current state that change it, in table order: condition
\* and target; the distance of a row is the distance of a detected face,
\* and min(1.5 C, P) is compared doubled
Rows(c) ==
    LET d == c.face_data.face_distance_cm
        P == c.before.presence_distance_cm
        C == c.before.close_distance_cm
    IN  CASE c.before.state = "IDLE" ->
               << <<RowFace(c) /\ d < P, "PRESENCE">> >>
          [] c.before.state = "PRESENCE" ->
               << <<RowFaceLost(c) >= PRESENCE_LOST_TIMEOUT_MS, "WITHDRAWING">>,
                  <<RowFace(c) /\ d >= P, "WITHDRAWING">>,
                  <<c.dwell_regions # {}, "ENGAGED">> >>
          [] c.before.state = "ENGAGED" ->
               << <<RowFaceLost(c) >= IDLE_FACE_LOST_TIMEOUT_MS, "WITHDRAWING">>,
                  <<RowFace(c) /\ d < C, "CLOSE_INTERACTION">>,
                  <<RowGazeAway(c) >= WITHDRAW_GAZE_AWAY_TIMEOUT_MS,
                    "WITHDRAWING">> >>
          [] c.before.state = "CLOSE_INTERACTION" ->
               << <<\/ RowFaceLost(c) >= IDLE_FACE_LOST_TIMEOUT_MS
                    \/ RowGazeAway(c) >= WITHDRAW_GAZE_AWAY_TIMEOUT_MS,
                    "WITHDRAWING">>,
                  <<RowFace(c) /\ (2 * d > 3 * C \/ d > P), "ENGAGED">> >>
          [] OTHER ->
               << <<c.before.withdraw_timer + c.dt
                       >= c.before.withdraw_duration_ms, "IDLE">> >>

\* the rows whose condition holds
Holding(c) == { k \in 1 .. Len(Rows(c)) : Rows(c)[k][1] }

TableNext(c) ==
    IF Holding(c) = {} THEN c.before.state
    ELSE Rows(c)[CHOOSE k \in Holding(c) : \A j \in Holding(c) : k <= j][2]

\* the second IDLE row: the flag, with the state kept
TableCycle(c) == c.before.idle_image_timer + c.dt >= IDLE_IMAGE_CYCLE_MS

\* C30: update() takes the transition of the first row of the table, in
\* table order for the current state, whose condition holds, and keeps the
\* state when none holds; the next state is TableNext of the call, which
\* reads the state, the timers, the thresholds and the inputs and nothing
\* else.
C30_FirstRowThatHolds ==
    \A k \in 1 .. Len(calls) :
        LET c == calls[k]
        IN  /\ c.after.state = TableNext(c)
            /\ (c.before.state = "IDLE" /\ Holding(c) = {})
                  => (c.after.should_cycle_image <=> TableCycle(c))

\* in PRESENCE the face is beyond the presence distance and a region is
\* dwelled: the second row wins over the third
C30_Witness ==
    /\ Len(calls) = 1
    /\ calls[1].before.state = "PRESENCE"
    /\ calls[1].face_data.face_distance_cm >= calls[1].before.presence_distance_cm
    /\ calls[1].dwell_regions # {}
    /\ Holding(calls[1]) = {2, 3}
    /\ calls[1].after.state = "WITHDRAWING"

(***************************************************************************)
(* A face held at one distance, between ENGAGED and CLOSE_INTERACTION      *)
(***************************************************************************)
\* the face has settled and the thresholds satisfy C_cm <= P_cm
HeldWithOrderedThresholds ==
    /\ calls # <<>>
    /\ fsm.close_distance_cm <= fsm.presence_distance_cm

\* C38 (as stated): with C_cm <= P_cm and a face held at one distance, after
\* at most one ENGAGED -> CLOSE_INTERACTION change the state machine does
\* not return to ENGAGED while the distance stays the same.
C38_NoReturnToEngaged ==
    HeldWithOrderedThresholds
        => calls[1].to_close <= 1 /\ calls[1].to_engaged = 0

\* C38 (amended): with C_cm <= P_cm and a face held at one distance, the
\* state machine never alternates between ENGAGED and CLOSE_INTERACTION:
\* after one change between the two, in either direction, it leaves the
\* state it changed to only for a state other than these two.
C38_NoAlternation ==
    HeldWithOrderedThresholds => calls[1].flips <= 1

\* the face held at 70 cm took the machine from ENGAGED to CLOSE_INTERACTION
\* and two more calls left it there
C38_Witness ==
    /\ HeldWithOrderedThresholds
    /\ calls[1].distance_cm = 70
    /\ calls[1].to_close = 1
    /\ calls[1].flips = 1
    /\ calls[1].in_close = 2
    /\ fsm.state = "CLOSE_INTERACTION"
(***************************************************************************)
(* Claims about the coordinator's loop                                     *)
(***************************************************************************)
\* the step is one iteration of the loop
IsTick == ticks' = ticks + 1

\* the regions of the image the iteration works on
TickRegions == Images[image_index].regions

\* in this iteration the gaze is held inside region R with a confidence of at
\* least R.min_confidence (and, if asked for, above 0), the face is nearer
\* than P_cm, and R's dwell timer reaches R.dwell_time_ms
DwellReached(R, positive) ==
    /\ tick_in'.face_data.num_faces > 0
    /\ tick_in'.face_data.face_distance_cm < fsm.presence_distance_cm
    /\ RegionHitTest(tick_in'.face_data.gaze_screen_x,
                     tick_in'.face_data.gaze_screen_y, R.points_normalized)
    /\ tick_in'.face_data.gaze_confidence >= R.min_confidence
    /\ positive => tick_in'.face_data.gaze_confidence > 0
    /\ MapGet(interaction.dwell_timers, R.id, 0) + tick_in'.dt
          >= R.dwell_time_ms

\* R has a heartbeat file and the file is there
HeartbeatPlayable(R) == HasHeartbeat(R) /\ R.heartbeat.resolves

C8_Step(positive) ==
    IsTick =>
      /\ \A i \in 1 .. Len(TickRegions) :
            (fsm.state = "PRESENCE" /\ DwellReached(TickRegions[i], positive))
                => /\ fsm'.state = "ENGAGED"
                   /\ HeartbeatPlayable(TickRegions[i])
                        => hb_plays'[TickRegions[i].id] = 1
      /\ (fsm.state = "PRESENCE" /\ fsm'.state = "ENGAGED")
            => \E i \in 1 .. Len(TickRegions) :
                  DwellReached(TickRegions[i], positive)
      /\ \A i \in 1 .. Len(TickRegions) :
            /\ hb_plays'[TickRegions[i].id] <= 1
            /\ ( /\ fsm'.state \in {"ENGAGED", "CLOSE_INTERACTION"}
                 /\ TickRegions[i].id \in tick_in'.dwell_regions
                 /\ HeartbeatPlayable(TickRegions[i]) )
               => hb_plays'[TickRegions[i].id] = 1

C9_FaceLostWithdraws ==
    [][ IsTick =>
          /\ ( /\ fsm.state = "ENGAGED"
               /\ tick_in'.face_data.num_faces = 0
               /\ fsm.face_lost_timer + tick_in'.dt
                     >= IDLE_FACE_LOST_TIMEOUT_MS )
             => fsm'.state = "WITHDRAWING"
          /\ fsm.state = "WITHDRAWING"
             => IF fsm.withdraw_timer + tick_in'.dt >= fsm.withdraw_duration_ms
                THEN /\ fsm'.state = "IDLE"
                     /\ \E k \in 1 .. Len(tick_audio') :
                           tick_audio'[k] = StopAll
                ELSE /\ fsm'.state = "WITHDRAWING"
                     /\ \A k \in 1 .. Len(tick_audio') :
                           tick_audio'[k] # StopAll ]_vars

\* from ENGAGED no face was detected for 5 s or more, then for W_s = 2 s
\* more: the state machine is back in IDLE and STOP_ALL has been put
C9_Witness ==
    /\ fsm.changes = << <<"WITHDRAWING", "IDLE">> >>
    /\ withdrew_from = "ENGAGED"
    /\ fsm.withdraw_duration_ms = 2000
    /\ fsm.face_lost_timer >= IDLE_FACE_LOST_TIMEOUT_MS + 2000
    /\ tick_audio = <<StopAll>>

\* the SET_VOLUME commands a tick put for the heartbeat of region rid
HeartbeatVolumes(rid) ==
    { k \in 1 .. Len(tick_audio) :
        /\ tick_audio[k].cmd_type = "SET_VOLUME"
        /\ tick_audio[k].name = "heartbeat_" \o rid }

\* C10: when a tick puts a SET_VOLUME for heartbeat_<region id>, the latest
\* PLAY_HEARTBEAT for that region was put at least the region's fade_in_ms
\* earlier.
C10_NoVolumeDuringFadeIn ==
    \A i \in 1 .. Len(Images[image_index].regions) :
        LET R == Images[image_index].regions[i]
        IN  (HasHeartbeat(R) /\ HeartbeatVolumes(R.id) # {})
                => hb_play_age[R.id] >= R.heartbeat.fade_in_ms

\* the first SET_VOLUME for heartbeat_r1, on the tick its 2 s of fade-in end
C10_Witness ==
    /\ HeartbeatVolumes("r1") # {}
    /\ hb_play_age["r1"] = 2000
    /\ StartedAge(started_heartbeats, "r1") = 2000


\* the positions in the display commands of a tick of the gaze-driven
\* SET_PARALLAXes whose gaze is within 0.005 of the gaze last sent on both axes
CloseGazes ==
    LET put == GazeParallax(tick_display', fsm'.state)
    IN  { k \in 1 .. Len(put) :
            /\ sent_gaze # <<>>
            /\ Abs(put[k].gaze_x - sent_gaze[1]) <= 5
            /\ Abs(put[k].gaze_y - sent_gaze[2]) <= 5 }

\* C11: a tick puts a gaze-driven SET_PARALLAX only if the smoothed gaze
\* differs from the gaze last sent by more than 0.005 on at least one axis,
\* and then it carries the smoothed gaze; it puts a SET_VOLUME for a stream
\* only if the volume differs by more than 0.01 from the volume last sent for
\* that stream.
C11_ChangedBeyondEpsilon ==
    [][ IsTick =>
          /\ CloseGazes = {}
          /\ \A k \in 1 .. Len(GazeParallax(tick_display', fsm'.state)) :
                LET c == GazeParallax(tick_display', fsm'.state)[k]
                IN  /\ c.gaze_x = tick_in'.face_data.gaze_screen_x
                    /\ c.gaze_y = tick_in'.face_data.gaze_screen_y
          /\ VolumeTrail(tick_audio', 1, 10,
                         [sent |-> sent_volume, repeats |-> {}]).repeats = {}
      ]_vars

\* the gaze moved by 0.005 and the heartbeat volume by less than 0.01 against
\* what was sent, and the tick put nothing
C11_Witness ==
    /\ fsm.state = "ENGAGED"
    /\ tick_in # NoInput
    /\ tick_in.face_data.num_faces > 0
    /\ sent_gaze = <<400, 400>>
    /\ tick_in.face_data.gaze_screen_x = 405
    /\ "heartbeat_r1" \in DOMAIN sent_volume
    /\ "ambient" \in DOMAIN sent_volume
    /\ tick_audio = <<>>
    /\ tick_display = <<>>

\* the dwell timer the tick leaves for region R is at most limit
DwellTimerAtMost(R, limit) ==
    R.id \in DOMAIN interaction'.dwell_timers
        => interaction'.dwell_timers[R.id] <= limit

\* C12 (as stated): after every update() every region's dwell timer is at
\* most dwell_time_ms + dt, however long the gaze stays inside the region.
C12_DwellTimerCapped ==
    [][ IsTick =>
          \A i \in 1 .. Len(TickRegions) :
             DwellTimerAtMost(TickRegions[i],
                              TickRegions[i].dwell_time_ms + tick_in'.dt)
      ]_vars

\* C12 (amended): an update() adds at most dt to a region's dwell timer, so
\* on the update() at which the timer first reaches dwell_time_ms it is
\* below dwell_time_ms + dt; after that it keeps growing by dt for as long as
\* the gaze stays inside the region.
C12_DwellTimerGrowsByDt ==
    [][ IsTick =>
          \A i \in 1 .. Len(TickRegions) :
             LET R == TickRegions[i]
                 before == MapGet(interaction.dwell_timers, R.id, 0)
             IN  /\ DwellTimerAtMost(R, before + tick_in'.dt)
                 /\ before < R.dwell_time_ms
                      => DwellTimerAtMost(R, R.dwell_time_ms + tick_in'.dt - 1)
                 /\ ( /\ R.id \in tick_in'.dwell_regions
                      /\ R.id \in DOMAIN interaction'.dwell_timers )
                      => interaction'.dwell_timers[R.id]
                            = before + tick_in'.dt
      ]_vars

\* the gaze stayed on r2 (dwell time 1000) for three ticks of 1000
C12_Witness ==
    /\ tick_in # NoInput
    /\ tick_in.dt = 1000
    /\ "r2" \in tick_in.dwell_regions
    /\ "r2" \in DOMAIN interaction.dwell_timers
    /\ interaction.dwell_timers["r2"] = 3000

\* the iteration got no new sample from the reader
NoNewSample == IsTick /\ since_new_frame' # 0

\* C15 (safety half): an iteration without a new sample works on the last
\* sample for as long as the time since the last new sample is at most
\* VISION_STALE_TIMEOUT_S (2 s), and on a no-face sample once it is more.
C15_Step ==
    NoNewSample =>
        tick_in'.face_data = IF since_new_frame' > 2000 THEN FaceDataNew
                             ELSE last_valid_face

\* C15 (order half): after the stall IDLE is entered from WITHDRAWING only
C15_Through ==
    (stalled /\ fsm.state # "IDLE" /\ fsm'.state = "IDLE")
        => fsm.state = "WITHDRAWING"

\* C15: while the reader yields no new sample the coordinator reuses the last
\* sample until the time since the last new sample exceeds
\* VISION_STALE_TIMEOUT_S and feeds a no-face sample on every iteration after
\* that, so a vision channel that stalls for ever in a state other than IDLE
\* eventually brings the state machine through WITHDRAWING to IDLE.
C15_StallLeadsToIdle ==
    /\ [][C15_Step /\ C15_Through]_vars
    /\ (stalled /\ fsm.state # "IDLE") ~> (fsm.state = "IDLE")

\* the channel stalled on a visitor who was engaged; the last sample was
\* reused, then given up, and the machine is back in IDLE
C15_Witness ==
    /\ stalled
    /\ fsm.state = "IDLE"
    /\ withdrew_from \in {"ENGAGED", "CLOSE_INTERACTION"}
    /\ last_valid_face.num_faces > 0
    /\ since_new_frame > 2000
    /\ tick_in.face_data = FaceDataNew

(***************************************************************************)
(* The transition recipes                                                  *)
(***************************************************************************)
\* the command carries every field the recipe names, with the recipe's value
Matches(cmd, r) == \A f \in DOMAIN r : f \in DOMAIN cmd /\ cmd[f] = r[f]

\* q begins with the recipe, and what follows the recipe are commands of the
\* continuous updates only
BeginsWith(q, recipe, continuous) ==
    /\ Len(q) >= Len(recipe)
    /\ \A k \in 1 .. Len(recipe) : Matches(q[k], recipe[k])
    /\ \A k \in Len(recipe) + 1 .. Len(q) : q[k].cmd_type \in continuous

\* the image's package holds the ambient file its metadata names
HasAmbientFile(img) == img.ambient.file # "" /\ img.ambient.resolves

\* PRESENCE -> ENGAGED: for each dwelled region, each on_gaze_dwell effect
RECURSIVE RecipeDwell(_, _, _, _)
RecipeDwell(regions, dwelled, i, j) ==
    IF i > Len(regions) THEN <<>>
    ELSE IF regions[i].id \notin dwelled \/ j > Len(regions[i].visual_effects)
        THEN RecipeDwell(regions, dwelled, i + 1, 1)
    ELSE LET ve == regions[i].visual_effects[j]
             base == [cmd_type |-> "SET_EFFECT", effect_type |-> ve.effect_type,
                      intensity |-> 600, fade_in_ms |-> ve.fade_in_ms]
             breathing == [cmd_type |-> "SET_EFFECT",
                           effect_type |-> "breathing", intensity |-> 600,
                           fade_in_ms |-> ve.fade_in_ms, amplitude |-> 8,
                           frequency |-> 250]
         IN  (IF ve.trigger # "on_gaze_dwell" THEN <<>>
              ELSE IF ve.effect_type = "breathing" THEN <<breathing>>
              ELSE <<base>>)
             \o RecipeDwell(regions, dwelled, i, j + 1)

\* what the recipe of old -> new puts on the audio queue
RecipeAudio(old, new, img) ==
    IF old = "IDLE" /\ new = "PRESENCE"
        THEN IF HasAmbientFile(img) THEN <<[cmd_type |-> "PLAY_AMBIENT"]>>
             ELSE <<>>
    ELSE IF new = "WITHDRAWING"
        THEN <<[cmd_type |-> "FADE_ALL", target_volume |-> 0,
                fade_ms |-> IF img.fade_out_ms # 0 THEN img.fade_out_ms
                            ELSE 4000]>>
    ELSE IF old = "WITHDRAWING" /\ new = "IDLE"
        THEN <<[cmd_type |-> "STOP_ALL"]>>
    ELSE <<>>

\* what the recipe of old -> new puts on the display queue
RecipeDisplay(old, new, img, dwelled) ==
    IF old = "IDLE" /\ new = "PRESENCE"
        THEN <<[cmd_type |-> "SET_EFFECT", effect_type |-> "kenburns",
                intensity |-> 300],
               [cmd_type |-> "SET_EFFECT", effect_type |-> "parallax",
                intensity |-> 200]>>
    ELSE IF old = "PRESENCE" /\ new = "ENGAGED"
        THEN RecipeDwell(img.regions, dwelled, 1, 1)
    ELSE IF old = "ENGAGED" /\ new = "CLOSE_INTERACTION"
        THEN <<[cmd_type |-> "SET_VIGNETTE", intensity |-> 800],
               [cmd_type |-> "SET_EFFECT_INTENSITY",
                effect_type |-> "breathing", intensity |-> 1000]>>
    ELSE IF old = "CLOSE_INTERACTION" /\ new = "ENGAGED"
        THEN <<[cmd_type |-> "SET_VIGNETTE", intensity |-> 0],
               [cmd_type |-> "SET_EFFECT_INTENSITY",
                effect_type |-> "breathing", intensity |-> 600]>>
    ELSE IF new = "WITHDRAWING"
        THEN <<[cmd_type |-> "SET_EFFECT_INTENSITY",
                effect_type |-> "breathing", intensity |-> 0],
               [cmd_type |-> "SET_VIGNETTE", intensity |-> 0],
               [cmd_type |-> "SET_PARALLAX", gaze_x |-> 500, gaze_y |-> 500]>>
    ELSE IF old = "WITHDRAWING" /\ new = "IDLE"
        THEN <<[cmd_type |-> "SET_EFFECT_INTENSITY",
                effect_type |-> "kenburns", intensity |-> 0],
               [cmd_type |-> "SET_EFFECT_INTENSITY",
                effect_type |-> "parallax", intensity |-> 0]>>
    ELSE <<>>

\* the transitions _on_transition has a branch for
HandledTransitions ==
    { <<"IDLE", "PRESENCE">>, <<"PRESENCE", "ENGAGED">>,
      <<"ENGAGED", "CLOSE_INTERACTION">>, <<"CLOSE_INTERACTION", "ENGAGED">>,
      <<"WITHDRAWING", "IDLE">> }
    \cup { <<old, "WITHDRAWING">> :
               old \in {"IDLE", "PRESENCE", "ENGAGED", "CLOSE_INTERACTION"} }

C16_Step ==
    (IsTick /\ fsm'.state # prev_state) =>
        /\ <<prev_state, fsm'.state>> \in HandledTransitions
        /\ BeginsWith(tick_audio',
                      RecipeAudio(prev_state, fsm'.state, Images[image_index]),
                      {"SET_VOLUME", "PLAY_HEARTBEAT", "STOP_HEARTBEAT"})
        /\ BeginsWith(tick_display',
                      RecipeDisplay(prev_state, fsm'.state, Images[image_index],
                                    tick_in'.dwell_regions),
                      {"SET_PARALLAX"})

\* C16: on every transition of the state machine the coordinator observes,
\* it puts exactly the recipe of that transition on the audio and on the
\* display queue, in the listed order and ahead of the continuous updates of
\* the iteration, and every such transition has a branch in _on_transition.
C16_TransitionRecipes == [][C16_Step]_vars

\* the machine came back from WITHDRAWING to IDLE on the image whose ambient
\* file is missing, and the iteration put the recipe
C16_Witness ==
    /\ fsm.state = "IDLE"
    /\ withdrew_from = "PRESENCE"
    /\ image_index = 3
    /\ tick_audio = <<[cmd_type |-> "STOP_ALL"]>>
    /\ Len(tick_display) = 2

\* the positions of the commands of q that carry the fields of r
Positions(q, r) == { k \in 1 .. Len(q) : Matches(q[k], r) }

\* the iteration starts in IDLE and works on a face nearer than the presence
\* distance P_cm
IdleFaceNear ==
    /\ IsTick
    /\ fsm.state = "IDLE"
    /\ tick_in'.face_data.num_faces > 0
    /\ tick_in'.face_data.face_distance_cm < fsm.presence_distance_cm

C17_Step ==
    IdleFaceNear =>
        /\ fsm'.state = "PRESENCE"
        /\ HasAmbientFile(Images[image_index])
              => Cardinality(Positions(tick_audio',
                                       [cmd_type |-> "PLAY_AMBIENT"])) = 1
        /\ \E i \in Positions(tick_display',
                               [cmd_type |-> "SET_EFFECT",
                                effect_type |-> "kenburns", intensity |-> 300]) :
           \E j \in Positions(tick_display',
                               [cmd_type |-> "SET_EFFECT",
                                effect_type |-> "parallax", intensity |-> 200]) :
               i < j

\* C17: from IDLE, an iteration whose sample has a face at a distance below
\* P_cm leaves the state machine in PRESENCE in that same iteration, which
\* then puts PLAY_AMBIENT on the audio queue when the image has an ambient
\* file, and SET_EFFECT kenburns 0.3 before SET_EFFECT parallax 0.2 on the
\* display queue.
C17_PresenceEntry == [][C17_Step]_vars

\* one iteration on a face at 250 cm, presence distance 300 cm
C17_Witness ==
    /\ ticks = 1
    /\ fsm.state = "PRESENCE"
    /\ fsm.presence_distance_cm = 300
    /\ tick_in.face_data.face_distance_cm = 250
    /\ Len(tick_audio) > 0
    /\ tick_audio[1].cmd_type = "PLAY_AMBIENT"
    /\ Len(tick_display) > 1
    /\ tick_display[1].effect_type = "kenburns"

\* update() found the gaze on a region with enough confidence, and set
\* gaze_away_timer to 0 before it looked at the state
GazeHeld ==
    LET conf == IF tick_in'.face_data.num_faces > 0
                THEN tick_in'.face_data.gaze_confidence ELSE 0
        threshold == IF /\ fsm.state \in {"ENGAGED", "CLOSE_INTERACTION"}
                        /\ tick_in'.min_active_confidence > 0
                     THEN tick_in'.min_active_confidence ELSE 60
    IN  tick_in'.active_regions # {} /\ conf >= threshold

\* gaze_away_timer at the moment the transition of this update() fires
TimerAtFiring == IF GazeHeld THEN 0 ELSE fsm.gaze_away_timer + tick_in'.dt

C18_Step ==
    IsTick =>
        /\ (fsm.state = "PRESENCE" /\ fsm'.state = "ENGAGED")
              => fsm'.gaze_away_timer = 0
        /\ (fsm.state = "CLOSE_INTERACTION" /\ fsm'.state = "ENGAGED")
              => fsm'.gaze_away_timer = TimerAtFiring

\* C18: a PRESENCE -> ENGAGED transition sets gaze_away_timer to 0, and a
\* CLOSE_INTERACTION -> ENGAGED transition leaves it at the value it had
\* when the transition fired, so that the time spent looking away keeps
\* adding up while the visitor moves between close and engaged.
C18_GazeAwayTimerKept == [][C18_Step]_vars

\* back from CLOSE_INTERACTION in ENGAGED with two iterations of looking away
\* on the timer
C18_Witness ==
    /\ fsm.state = "ENGAGED"
    /\ Len(fsm.changes) = 1
    /\ fsm.changes[1] = <<"CLOSE_INTERACTION", "ENGAGED">>
    /\ fsm.gaze_away_timer > tick_in.dt

\* the SET_VOLUME at position k of the iteration's audio commands comes after
\* a PLAY_AMBIENT of the same session: one of an earlier iteration since the
\* state machine left IDLE, or one put earlier in this iteration
AfterPlayAmbient(k) ==
    \/ fsm.state # "IDLE" /\ ambient_played
    \/ \E j \in 1 .. k - 1 : tick_audio'[j].cmd_type = "PLAY_AMBIENT"

C19_Step ==
    IsTick =>
        \A k \in 1 .. Len(tick_audio') :
            Matches(tick_audio'[k], [cmd_type |-> "SET_VOLUME", name |-> "ambient"])
                => AfterPlayAmbient(k)

\* C19: a SET_VOLUME for the stream ambient is put on the audio queue only if
\* a PLAY_AMBIENT was put earlier in the same session, that is since the
\* state machine last left IDLE.
C19_VolumeOnlyAfterPlay == [][C19_Step]_vars

\* a visitor in front of the image whose ambient file is missing: the volume
\* of ambient was set, and no PLAY_AMBIENT was put in this session
C19_Witness ==
    /\ fsm.state \in {"PRESENCE", "ENGAGED", "CLOSE_INTERACTION"}
    /\ ~ambient_played
    /\ \E k \in 1 .. Len(tick_audio) :
          Matches(tick_audio[k], [cmd_type |-> "SET_VOLUME", name |-> "ambient"])

\* the kinds of audio command the continuous updates put
ContinuousAudio == {"SET_VOLUME", "PLAY_HEARTBEAT", "STOP_HEARTBEAT"}

\* the SET_PARALLAX commands among the iteration's display commands
ParallaxPut == Positions(tick_display', [cmd_type |-> "SET_PARALLAX"])

C20_Step ==
    (IsTick /\ fsm'.state \in {"IDLE", "WITHDRAWING"}) =>
        \* no command of the continuous updates on the audio queue
        /\ \A k \in 1 .. Len(tick_audio') :
              tick_audio'[k].cmd_type \notin ContinuousAudio
        \* no SET_PARALLAX but the re-centring one of entering WITHDRAWING
        /\ ParallaxPut =
              IF fsm.state # "WITHDRAWING" /\ fsm'.state = "WITHDRAWING"
              THEN Positions(tick_display',
                             [cmd_type |-> "SET_PARALLAX", gaze_x |-> 500,
                              gaze_y |-> 500])
              ELSE {}
        /\ Cardinality(ParallaxPut) <= 1
        \* from the FADE_ALL of entering WITHDRAWING to the STOP_ALL of
        \* reaching IDLE
        /\ (fsm.state # "WITHDRAWING" /\ fsm'.state = "WITHDRAWING")
              => /\ Len(tick_audio') = 1
                 /\ tick_audio'[1].cmd_type = "FADE_ALL"
        /\ (fsm.state = "WITHDRAWING" /\ fsm'.state = "WITHDRAWING")
              => tick_audio' = <<>>
        /\ (fsm.state = "WITHDRAWING" /\ fsm'.state = "IDLE")
              => tick_audio' = <<[cmd_type |-> "STOP_ALL"]>>

\* C20: an iteration whose state after the update of the state machine is
\* IDLE or WITHDRAWING puts no command of the continuous updates (gaze-driven
\* SET_PARALLAX, SET_VOLUME, PLAY_HEARTBEAT, STOP_HEARTBEAT); nothing goes on
\* the audio queue between the FADE_ALL of entering WITHDRAWING and the
\* STOP_ALL of reaching IDLE.
C20_QuietWhenIdleOrWithdrawing == [][C20_Step]_vars

\* an iteration that stays in WITHDRAWING while the ambient stream counts as
\* started and a face looks somewhere else than the last gaze sent: nothing
\* was put on either queue
C20_Witness ==
    /\ fsm.state = "WITHDRAWING"
    /\ fsm.changes = <<>>
    /\ ambient_started
    /\ tick_in.face_data.num_faces > 0
    /\ tick_in.face_data.gaze_screen_x # last_sent_gaze[1]
    /\ tick_audio = <<>>
    /\ tick_display = <<>>

(***************************************************************************)
(* Claims about the interaction model                                      *)
(***************************************************************************)
\* the calls with a detected face
FaceCalls == { k \in 1 .. Len(calls) : calls[k].num_faces > 0 }

\* C23: for a detected face the distance factor is 1.0 at d = near_cm, 0.0
\* at d = far_cm, and never increases as d increases; when near_cm >= far_cm
\* it is the step function that is 1.0 for d <= near_cm and 0.0 otherwise.
C23_DistanceFactor ==
    /\ \A k \in FaceCalls :
          LET c == calls[k]
          IN  IF c.near_cm < c.far_cm
              THEN /\ c.face_distance_cm = c.near_cm
                        => c.distance_factor = 1000
                   /\ c.face_distance_cm = c.far_cm => c.distance_factor = 0
              ELSE c.distance_factor =
                      IF c.face_distance_cm <= c.near_cm THEN 1000 ELSE 0
    /\ \A i, j \in FaceCalls :
          ( /\ calls[i].near_cm = calls[j].near_cm
            /\ calls[i].far_cm = calls[j].far_cm
            /\ calls[i].face_distance_cm <= calls[j].face_distance_cm )
          => calls[i].distance_factor >= calls[j].distance_factor

\* two calls between the thresholds, the nearer face with the larger factor
C23_Witness ==
    /\ Len(calls) = 2
    /\ FaceCalls = {1, 2}
    /\ calls[1].near_cm = 80 /\ calls[2].near_cm = 80
    /\ calls[1].face_distance_cm = 190
    /\ calls[2].face_distance_cm = 90
    /\ calls[1].distance_factor = 500
    /\ calls[2].distance_factor > 500

(***************************************************************************)
(* The ambient fade-in and SET_VOLUME                                      *)
(***************************************************************************)
\* the fade_ms that PLAY_AMBIENT carries
AmbientFadeInMs == PlayAmbient(Image1.ambient).fade_ms

PutsPlayAmbient(audio) ==
    \E k \in 1 .. Len(audio) : audio[k].cmd_type = "PLAY_AMBIENT"

PutsAmbientVolume(audio) ==
    \E k \in 1 .. Len(audio) :
        audio[k].cmd_type = "SET_VOLUME" /\ audio[k].name = "ambient"

C31_Step ==
    /\ ~(PutsPlayAmbient(tick_audio') /\ PutsAmbientVolume(tick_audio'))
    /\ (PutsPlayAmbient(tick_audio) /\ tick_in'.dt < AmbientFadeInMs)
          => ~PutsAmbientVolume(tick_audio')

\* C31: no SET_VOLUME for ambient is put on the iteration that puts
\* PLAY_AMBIENT, nor on the next one when it comes within the fade-in
\* duration that PLAY_AMBIENT carries.
C31_FadeInNotCutShort == [][C31_Step]_vars

\* an iteration has put PLAY_AMBIENT
C31_Witness == PutsPlayAmbient(tick_audio)

(***************************************************************************)
(* The idle image cycle                                                    *)
(***************************************************************************)
C34_Step ==
    \* raised exactly by an IDLE iteration that stays IDLE and on which the
    \* idle timer reaches the cycle time
    /\ fsm'.should_cycle_image
          <=> /\ fsm.state = "IDLE"
              /\ fsm'.state = "IDLE"
              /\ fsm.idle_image_timer + tick_in'.dt >= IDLE_IMAGE_CYCLE_MS
    \* cleared by every transition
    /\ fsm'.state # fsm.state => ~fsm'.should_cycle_image
    \* the image changes only on an iteration whose state is IDLE
    /\ image_index' # image_index
          => fsm'.state = "IDLE" /\ prev_state' = "IDLE"

\* C34: should_cycle_image is true only while the state is IDLE: an IDLE
\* iteration on which the idle timer reaches IDLE_IMAGE_CYCLE_SECONDS raises
\* it without changing the state, every transition clears it, and the
\* coordinator changes the current image only on iterations whose state is
\* IDLE.
C34_CycleOnlyInIdle ==
    /\ (fsm.should_cycle_image => fsm.state = "IDLE")
    /\ [][C34_Step]_vars

\* the flag was raised, the image changed, and the next iteration left IDLE
\* with the flag cleared
C34_Witness ==
    /\ image_index = 2
    /\ fsm.state = "PRESENCE"
    /\ fsm.changes = << <<"IDLE", "PRESENCE">> >>
    /\ ~fsm.should_cycle_image
    /\ ticks = 2

\* the withdraw duration an image asks for: its fade_out_ms, the global
\* value when it has none, and never less than 100 ms
ImageWithdrawMs(img) ==
    IF img.fade_out_ms # 0 THEN Max(100, img.fade_out_ms)
    ELSE WITHDRAW_FADE_DURATION_MS

C35_Step ==
    LET n == Len(Images)
        img == Images[image_index']
    IN  IF fsm'.should_cycle_image
        THEN /\ image_index' = (image_index % n) + 1
             /\ tick_display' # <<>>
             /\ tick_display'[Len(tick_display')] =
                   [cmd_type |-> "CROSSFADE_IMAGE", path |-> img.title,
                    duration_ms |-> img.fade_in_ms]
             /\ tick_audio' # <<>>
             /\ tick_audio'[Len(tick_audio')] = FadeAll(img.audio_crossfade_ms)
             /\ interaction'.dwell_timers = EmptyMap
             /\ interaction'.prev_active = {}
        ELSE image_index' = image_index

DwellRegions == { Image1.regions[i] : i \in 1 .. Len(Image1.regions) }

\* C36: after update(), a region of the call that contains the gaze point
\* while the confidence is below its min_confidence has a dwell timer of 0
\* (as read by get(rid, 0.0)); a region that was active on the previous
\* update and is not active on this one has no dwell timer entry; and a
\* region is in dwell_regions only at the end of an unbroken run of
\* updates, each with the gaze inside its polygon with sufficient
\* confidence, whose dt values sum to at least its dwell_time_ms.
C36_DwellNeedsUnbrokenRun ==
    \A k \in 1 .. Len(calls) :
        LET c == calls[k]
        IN  /\ \A i \in 1 .. Len(c.regions) :
                  ( /\ RegionHitTest(c.face_data.gaze_screen_x,
                                     c.face_data.gaze_screen_y,
                                     c.regions[i].points_normalized)
                    /\ c.face_data.gaze_confidence
                          < c.regions[i].min_confidence )
                  => MapGet(interaction.dwell_timers, c.regions[i].id, 0) = 0
            /\ \A rid \in c.before.prev_active \ c.active_regions :
                  rid \notin DOMAIN interaction.dwell_timers
            /\ \A R \in DwellRegions :
                  R.id \in c.dwell_regions => c.run[R.id] >= R.dwell_time_ms

\* r1 (dwell time 1500 ms) becomes dwelled on the update that completes a
\* run of 1500 ms
C36_Witness ==
    /\ Len(calls) = 1
    /\ calls[1].dwell_regions = {"r1"}
    /\ calls[1].run["r1"] = 1500
    /\ calls[1].dt = 500
    /\ MapGet(calls[1].before.dwell_timers, "r1", 0) = 1000

(***************************************************************************)
(* The gaze last sent and the SET_PARALLAX commands                        *)
(***************************************************************************)
\* the SET_PARALLAX commands among display commands, from whichever path
ParallaxOf(display) == SelectSeq(display, LAMBDA c : c.cmd_type = "SET_PARALLAX")

C37_Step ==
    IsTick =>
        LET put == ParallaxOf(tick_display')
        IN  IF put = <<>> THEN last_sent_gaze' = last_sent_gaze
            ELSE last_sent_gaze'
                    = <<put[Len(put)].gaze_x, put[Len(put)].gaze_y>>

\* C37: at the end of every iteration the last-sent gaze pair is the gaze of
\* the most recent SET_PARALLAX put on the display queue: an iteration that
\* puts one leaves the pair at its gaze_x, gaze_y, from whichever code path
\* it was put, and an iteration that puts none leaves the pair as it was.
C37_LastSentIsLatestParallax == [][C37_Step]_vars

\* the iteration entered WITHDRAWING and put SET_PARALLAX for the centre
C37_Witness ==
    /\ fsm.state = "WITHDRAWING"
    /\ fsm.changes # <<>>
    /\ ParallaxOf(tick_display) = <<SetParallax(500, 500)>>

(***************************************************************************)
(* The fade-out of WITHDRAWING and the STOP_ALL that ends it               *)
(***************************************************************************)
\* C39: whatever the fade_out_ms of the current image (0 and negative values
\* included), the time accumulated between the iteration that put the
\* FADE_ALL of entering WITHDRAWING and the iteration that put the STOP_ALL
\* of WITHDRAWING -> IDLE is at least the fade_ms that FADE_ALL carried; and
\* no STOP_ALL is put without a FADE_ALL before it.
C39_StopAfterFadeOut ==
    /\ PutsOfType(tick_audio, "STOP_ALL") # {}
          => calls # <<>> /\ calls[1].stopped
    /\ (calls # <<>> /\ calls[1].stopped)
          => calls[1].elapsed_ms >= calls[1].fade_ms

\* the image asked for a fade-out of -500 ms; FADE_ALL carried -500 and
\* STOP_ALL has been put
C39_Witness ==
    /\ calls # <<>>
    /\ calls[1].stopped
    /\ calls[1].fade_ms = Image5.fade_out_ms
    /\ PutsOfType(tick_audio, "STOP_ALL") # {}
    /\ Images[image_index] = Image5

(***************************************************************************)
(* ImageManager: the cursor                                                *)
(***************************************************************************)
\* the latest call, and _index before it
LatestOp == image_mgr.ops[Len(image_mgr.ops)]

IndexBefore == image_mgr.trail[Len(image_mgr.trail)]

\* C40: with n >= 1 loaded packages, after any calls of next_image() and
\* prev_image() the cursor is in 0 .. n - 1 and indexes the same package in
\* the metadata list and in the directory list; next_image() from the last
\* package yields the first, prev_image() from the first yields the last,
\* and prev_image() right after next_image() yields the package the cursor
\* was on before the two calls.
C40_CursorWrapsAndStaysAligned ==
    LET n == Len(image_mgr.images)
        i == image_mgr.index
    IN  n >= 1 =>
          /\ i \in 0 .. n - 1
          /\ Len(image_mgr.image_dirs) = n
          /\ CurrentImage(image_mgr)
                = <<ParseMetadata(CurrentImageDir(image_mgr)[1])>>
          /\ LatestOp \in {"next", "prev"}
                => image_mgr.ret = CurrentImage(image_mgr)
          /\ (LatestOp = "next" /\ IndexBefore = n - 1)
                => i = 0 /\ image_mgr.ret = <<image_mgr.images[1]>>
          /\ (LatestOp = "prev" /\ IndexBefore = 0)
                => i = n - 1 /\ image_mgr.ret = <<image_mgr.images[n]>>
          /\ image_mgr.ops = <<"next", "prev">>
                => /\ i = image_mgr.trail[1]
                   /\ image_mgr.ret
                        = <<image_mgr.images[image_mgr.trail[1] + 1]>>

\* three packages among four subdirectories; next_image() from the last
\* package and then prev_image()
C40_Witness ==
    /\ Len(image_mgr.images) = 3
    /\ image_mgr.image_dirs # <<1, 2, 3>>
    /\ image_mgr.ops = <<"next", "prev">>
    /\ image_mgr.trail = <<2, 0>>
    /\ image_mgr.index = 2
(***************************************************************************)
(* Claims about the audio process                                          *)
(***************************************************************************)
\* the stream names the coordinator's commands are about
CoordNames == {"ambient", "heartbeat_r1", "heartbeat_r2"}

\* a fade to 0 was the latest request on the object, and it has run out
FadeOutCompleted(o) ==
    /\ o \in fade_out_asked
    /\ streams[o].volume = 0
    /\ ~streams[o].fading

\* the PLAY commands for a stream name among the commands of one tick
PlaysFor(audio, name) ==
    { i \in 1..Len(audio) :
        /\ audio[i].cmd_type \in {"PLAY_AMBIENT", "PLAY_HEARTBEAT"}
        /\ StreamNameOf(audio[i]) = name }

C5_Step ==
    /\ \A n \in CoordNames \cap DOMAIN mixer_streams :
          n \notin DOMAIN mixer_streams'
             => \/ cmd_pc = "stop_all"
                \/ FadeOutCompleted(mixer_streams[n])
    /\ IsTick => \A n \in CoordNames : Cardinality(PlaysFor(tick_audio', n)) <= 1

\* C5: one tick of the coordinator starts a stream name at most once, and a
\* stream registered as ambient or heartbeat_<region_id> leaves the mixer
\* only when STOP_ALL / SHUTDOWN is handled or after a fade-out to volume 0
\* that was asked for has completed; no SET_VOLUME makes it disappear.
C5_StaysUntilFadedOut == [][C5_Step]_vars

\* a stream dropped by the sweep while the coordinator believes it playing
C5_Witness ==
    /\ ambient_started
    /\ cmd_pc = "get"
    /\ "ambient" \notin DOMAIN mixer_streams
    /\ "amb1.wav" \in DOMAIN streams
    /\ "amb1.wav" \notin fade_out_asked

\* C6: whenever the command thread writes the volume, fade target, fade rate
\* or fading flag of a stream registered in the mixer, it holds the mixer
\* mutex, so no mix() of the callback thread is in progress at that moment.
C6_WritesHoldMutex ==
    cmd_wrote.registered => cmd_wrote.locked /\ mutex # "callback"

\* SET_VOLUME writes a registered stream while mix() is in progress
C6_Witness ==
    /\ cmd_wrote.registered
    /\ ~cmd_wrote.locked
    /\ mutex = "callback"
    /\ cmd_cur.cmd_type = "SET_VOLUME"

\* the retiring keys add_stream can make in SpecMixer
RetireKeys == { RetireName(n, o) : n \in MixerNames, o \in MixerObjects }

\* the step is add_stream(name, o)
IsAdd(name, o) ==
    mixer_calls' = Append(mixer_calls,
                     [op |-> "add_stream", name |-> name, stream |-> o])

C7_Step ==
    \A name \in MixerNames, o \in MixerObjects :
        ( /\ IsAdd(name, o)
          /\ name \in DOMAIN mixer_streams
          /\ StreamIsActive(streams[mixer_streams[name]]) )
        => /\ mixer_streams'[name] = o
           /\ RetireName(name, mixer_streams[name]) \in DOMAIN mixer_streams'
           /\ mixer_streams'[RetireName(name, mixer_streams[name])]
                 = mixer_streams[name]
           /\ streams'[mixer_streams[name]].fade_target = 0
           /\ \A n \in DOMAIN mixer_streams' \ {name} :
                 /\ n \in RetireKeys
                 /\ streams'[mixer_streams'[n]].fade_target = 0

\* C7: add_stream(name, s2) while the stream s1 under name is active leaves
\* s2 as the one stream under name, keeps s1 under a retiring key with a
\* fade to 0, and every other registered stream is a retiring one on its way
\* out; with mix() and the cleanup sweep continuing, every retiring key is
\* eventually removed from the mixer.
C7_LatestWinsOldRetires ==
    /\ [][C7_Step]_vars
    /\ \A k \in RetireKeys :
          (k \in DOMAIN mixer_streams) ~> (k \notin DOMAIN mixer_streams)

\* s1 then s2 were added under one name; s1 has faded out and left the mixer
C7_Witness ==
    /\ Len(mixer_calls) >= 3
    /\ \E i, j \in 1..Len(mixer_calls) :
          /\ i < j
          /\ mixer_calls[i] = [op |-> "add_stream", name |-> "ambient",
                               stream |-> "s1"]
          /\ mixer_calls[j] = [op |-> "add_stream", name |-> "ambient",
                               stream |-> "s2"]
    /\ "s1" \in fade_out_asked
    /\ streams["s1"].volume = 0
    /\ mixer_streams = MapPut(EmptyMap, "ambient", "s2")
    /\ StreamIsActive(streams["s2"])


\* the duration of the requested fade in seconds, as a float
FadeSeconds == Scale(F64One, DurationExp(fade_req.duration_ms))

\* C13: after set_fade(v, d), once the dt of the update() calls (those that
\* mix() makes) sum to at least d, the stream's current_volume equals v and
\* it is no longer fading.
C13_FadeCompletes ==
    F64Leq(FadeSeconds, fade_elapsed)
        => fstream.volume = fade_req.target_volume /\ ~fstream.fading

\* set_fade(1.0, 1000) at volume 0.0 and ten mix(4410): the ten dt sum to
\* more than one second, and the volume stands one float below 1.0, fading
C13_Witness ==
    /\ fade_req = [target_volume |-> F64One, duration_ms |-> 1000]
    /\ fade_updates = 10
    /\ fade_elapsed = F64(268435456, 16)
    /\ fstream.volume = F64(268435455, 1073741792)
    /\ fstream.fading

\* C14: if mixer.mix() raises inside the audio device callback, the callback
\* fills the device buffer with zeros and the exception does not leave it.
C14_SilenceOnMixError ==
    cb_result.raised => outdata = "silence" /\ ~cb_result.escaped

\* mix() raised while streams were playing; the buffer was not written
C14_Witness ==
    /\ cb_result.raised
    /\ cb_result.escaped
    /\ outdata = "stale"
    /\ mixer_streams # EmptyMap

\* a float32 within [-1, +1]
InUnit(a) == a.kind = "num" /\ a.v >= 0 - 1000 /\ a.v <= 1000

\* C24: every sample of every buffer mix() returns lies in [-1, +1],
\* whatever the number of streams, their volumes, their sample values and
\* the master volume.
C24_MixWithinUnit == \A k \in 1 .. Len(calls) : InUnit(calls[k].buffer)

\* a mix of two audible streams whose sum is beyond full scale, clipped
C24_Witness ==
    /\ Len(calls) = 1
    /\ Len(calls[1].streams) = 2
    /\ \A k \in 1 .. 2 : /\ calls[1].streams[k].sample = Num(2500)
                          /\ calls[1].streams[k].stream.volume = 1000
                          /\ StreamIsActive(calls[1].streams[k].stream)
    /\ calls[1].master_volume = 1000
    /\ calls[1].buffer = Num(1000)

\* the names of c.streams whose stream is not active and has volume <= 0
Removable(c) ==
    { n \in DOMAIN c.streams :
          LET s == c.heap[c.streams[n]]
          IN  /\ s.volume <= 0
              /\ s.finished \/ ~(s.volume > 0 \/ (s.fading /\ s.fade_target > 0)) }

\* C25: remove_inactive() removes exactly the streams whose is_active is
\* false and whose volume is <= 0 and leaves every other stream registered;
\* a second call with no operation in between removes nothing.
C25_RemoveInactiveExact ==
    \A k \in 1 .. Len(calls) :
        /\ DOMAIN calls[k].first = DOMAIN calls[k].streams \ Removable(calls[k])
        /\ \A n \in DOMAIN calls[k].first :
              calls[k].first[n] = calls[k].streams[n]
        /\ calls[k].second = calls[k].first

\* a finished stream that is still audible stays, a silent one goes, and
\* one that is fading in stays
C25_Witness ==
    /\ Len(calls) = 1
    /\ DOMAIN calls[1].streams = RemoveNames
    /\ calls[1].streams["ambient"] = "s1"
    /\ calls[1].heap["s1"].finished /\ calls[1].heap["s1"].volume > 0
    /\ calls[1].streams["heartbeat_r1"] = "s2"
    /\ calls[1].heap["s2"].volume = 0 /\ ~calls[1].heap["s2"].fading
    /\ DOMAIN calls[1].first = {"ambient", RetireName("ambient", "s1")}
    /\ calls[1].second = calls[1].first

\* the dispatcher is through with a PLAY command whose file does not load
DropsUnloadable ==
    /\ cmd_pc = "create"
    /\ cmd_pc' # "create"
    /\ cmd_cur.file_path \in UnloadableFiles

C27_Step ==
    DropsUnloadable =>
        /\ mixer_streams' = mixer_streams
        /\ streams' = streams
        /\ audio_q' = audio_q
        /\ cmd_pc' = "sweep"

\* C27: a PLAY_AMBIENT or PLAY_HEARTBEAT naming a file that cannot be
\* loaded is dropped: the mixer's stream map and every existing stream are
\* left as they were, nothing of that file is ever registered, and the
\* dispatcher goes on with its loop and the commands queued after it.
C27_UnloadableDropped ==
    /\ [][C27_Step]_vars
    /\ [](\A n \in DOMAIN mixer_streams :
            \A f \in UnloadableFiles, b \in BOOLEAN :
                mixer_streams[n] # CacheKey(f, b))

\* the dispatcher has just dropped such a command while a stream is
\* registered and fading in and another command waits in the queue
C27_Witness ==
    /\ cmd_pc = "sweep"
    /\ cmd_cur.cmd_type = "PLAY_HEARTBEAT"
    /\ cmd_cur.file_path \in UnloadableFiles
    /\ "ambient" \in DOMAIN mixer_streams
    /\ streams[mixer_streams["ambient"]].fading
    /\ audio_q # <<>>

\* C29: no AudioStream object is registered in the mixer under two names at
\* once, retiring slots included.
C29_NoObjectUnderTwoNames ==
    \A n1, n2 \in DOMAIN mixer_streams :
        n1 # n2 => mixer_streams[n1] # mixer_streams[n2]

\* two heartbeat names hold the one cached stream of the file both play
C29_Witness ==
    /\ {"heartbeat_r1", "heartbeat_r2"} \subseteq DOMAIN mixer_streams
    /\ mixer_streams["heartbeat_r1"] = mixer_streams["heartbeat_r2"]
    /\ cb_pc = "idle"
    /\ streams[mixer_streams["heartbeat_r1"]].volume = 1000

\* the dispatcher finishes handling SET_VOLUME for a registered stream
FinishesSetVolume == cmd_pc = "sv_fading" /\ cmd_pc' = "sweep"

C28_Step ==
    FinishesSetVolume =>
        /\ streams'[cmd_obj].volume = Clamp01(cmd_cur.volume)
        /\ ~streams'[cmd_obj].fading

\* C28: once the dispatcher has finished handling SET_VOLUME(name, v) for
\* a registered stream, the stream's volume is v clamped to [0, 1] and its
\* fading flag is false, under every interleaving with mix() calls on the
\* callback thread.
C28_SetVolumeSticks == [][C28_Step]_vars

\* SET_VOLUME(ambient, 0.0) has been handled, and the stream plays at 0.5
C28_Witness ==
    /\ cmd_pc = "sweep"
    /\ cmd_cur = SetVolume("ambient", 0)
    /\ cmd_obj \in Registered(mixer_streams)
    /\ streams[cmd_obj].volume = 500
    /\ ~streams[cmd_obj].fading

(***************************************************************************)
(* The stream map while mix() iterates over it                             *)
(***************************************************************************)
C33_Step ==
    \* the callback thread's steps insert and remove nothing
    /\ cb_pc' # cb_pc => mixer_streams' = mixer_streams
    \* nothing is inserted or removed while mix() holds the lock
    /\ cb_pc = "mixing" => mixer_streams' = mixer_streams
    \* an insertion or a removal finds the lock free and leaves it free
    /\ mixer_streams' # mixer_streams => mutex = "none" /\ mutex' = "none"

\* C33: entries are inserted into and removed from the mixer's stream map
\* only by the command thread and only with the mutex held, so the map does
\* not change while a mix() call on the callback thread is iterating over
\* it.
C33_MapStableDuringMix == [][C33_Step]_vars

\* mix() is iterating while the command thread is at the sweep with a silent
\* stream to remove
C33_Witness ==
    /\ cb_pc = "mixing"
    /\ mutex = "callback"
    /\ cmd_pc = "sweep"
    /\ Sweep(mixer_streams, streams) # mixer_streams
(***************************************************************************)
(* Claims about the coordinator's shutdown                                 *)
(***************************************************************************)
\* the ways the brain loop ends
BrainEnds == {"no_region", "no_images", "dead_child", "keyboard_interrupt",
              "exception"}

Elems(q) == { q[k] : k \in 1 .. Len(q) }

\* what _shutdown has done once it is through
ShutdownDone ==
    /\ coord.display_q # <<>>
    /\ coord.display_q[Len(coord.display_q)] = "SHUTDOWN"
    /\ coord.audio_q # <<>>
    /\ coord.audio_q[Len(coord.audio_q)] = "SHUTDOWN"
    /\ coord.vision_q = <<"SHUTDOWN">>
    /\ \A p \in Elems(coord.processes) :
          \E k \in 1 .. Len(coord.joins) :
              /\ coord.joins[k].proc = p
              /\ coord.joins[k].timeout_ms >= 0
    /\ coord.terminated = coord.stragglers

C26_Safe ==
    /\ coord.cause \in BrainEnds /\ coord.pc = "done" => ShutdownDone
    /\ coord.cause = "no_region" =>
          /\ Elems(coord.display_q) \subseteq {"SHUTDOWN"}
          /\ Elems(coord.audio_q) \subseteq {"SHUTDOWN"}

\* C26: on every way the brain loop ends (no vision region within the
\* connect timeout, no image package, a dead child at the liveness check,
\* KeyboardInterrupt, an unhandled exception) the coordinator puts SHUTDOWN
\* on the display and audio queues and the sentinel on the vision queue,
\* joins each child with a bounded timeout, terminates any child still
\* alive, and the shutdown itself terminates; when the region never
\* appears, no display or audio command other than SHUTDOWN is enqueued.
C26_ShutdownCompletes ==
    /\ []C26_Safe
    /\ (coord.cause \in BrainEnds) ~> (coord.pc = "done")

\* the loop ended because a child was found dead; another child outlived
\* its join and was terminated
C26_Witness ==
    /\ coord.pc = "done"
    /\ coord.cause = "dead_child"
    /\ coord.stragglers # {}
    /\ coord.terminated = coord.stragglers
    /\ "SET_VOLUME" \in Elems(coord.audio_q)
    /\ ShutdownDone
(***************************************************************************)
(* The specifications                                                      *)
(***************************************************************************)
InitSeqlock ==
    /\ \E f0 \in FrameStarts : SeqlockInit(f0)
    /\ FsmInit
    /\ BrainLocalsInit
    /\ AudioInit(EmptyMap) /\ FadeNone /\ stalled = FALSE /\ calls = <<>> /\ coord = CoordNew /\ tmp = TmpNone /\ image_mgr = ImageManagerNew

SpecSeqlock == InitSeqlock /\ [][NextSeqlock]_vars

InitFsm ==
    SeqlockInit(0) /\ FsmInit /\ BrainLocalsInit /\ AudioInit(EmptyMap) /\ FadeNone /\ stalled = FALSE /\ calls = <<>> /\ coord = CoordNew /\ tmp = TmpNone /\ image_mgr = ImageManagerNew

SpecFsm == InitFsm /\ [][NextFsm]_vars

SpecHold == InitFsm /\ [][NextHold]_vars

SpecTable == InitFsm /\ [][NextTable]_vars

InitBrain == SeqlockInit(0) /\ BrainInit /\ AudioInit(EmptyMap) /\ FadeNone /\ stalled = FALSE /\ calls = <<>> /\ coord = CoordNew /\ tmp = TmpNone /\ image_mgr = ImageManagerNew

SpecBrain == InitBrain /\ [][NextBrain]_vars

\* the loop keeps iterating
SpecStall == InitBrain /\ [][NextStall]_vars /\ WF_vars(StalledTick)

InitGallery ==
    SeqlockInit(0) /\ GalleryInit /\ AudioInit(EmptyMap) /\ FadeNone /\ stalled = FALSE /\ calls = <<>> /\ coord = CoordNew /\ tmp = TmpNone /\ image_mgr = ImageManagerNew

SpecGallery == InitGallery /\ [][NextGallery]_vars

SpecWithdraw == InitGallery /\ [][NextWithdraw]_vars

SpecPlaylist == InitBrain /\ [][NextPlaylist]_vars

SpecDwell == InitBrain /\ [][NextDwell]_vars

SpecCycle == InitBrain /\ [][NextCycle]_vars

SpecDistance == InitBrain /\ [][NextDistance]_vars

SpecEpsilon == InitBrain /\ [][NextEpsilon]_vars

SpecSystem == InitBrain /\ [][NextSystem]_vars

SpecDispatch == InitBrain /\ [][NextDispatch]_vars

SpecRace == InitBrain /\ [][NextRace]_vars

InitFade ==
    SeqlockInit(0) /\ BrainInit /\ AudioInit(EmptyMap) /\ FadeInit /\ stalled = FALSE /\ calls = <<>> /\ coord = CoordNew /\ tmp = TmpNone /\ image_mgr = ImageManagerNew

SpecFade == InitFade /\ [][NextFade]_vars

InitMixer ==
    /\ SeqlockInit(0)
    /\ BrainInit
    /\ AudioInit([o \in MixerObjects |-> StreamNew])
    /\ FadeNone
    /\ stalled = FALSE /\ calls = <<>> /\ coord = CoordNew /\ tmp = TmpNone /\ image_mgr = ImageManagerNew

SpecMixBuffer == InitMixer /\ [][NextMixBuffer]_vars

SpecRemove == InitMixer /\ [][NextRemove]_vars

SpecCallback == InitMixer /\ [][NextCallback]_vars

\* The callback keeps being called and the owner keeps sweeping.  The sweep
\* waits for the lock, which mix() takes and releases over and over, so its
\* fairness is strong: a sweep that keeps being attempted gets the lock.
SpecMixer ==
    /\ InitMixer
    /\ [][NextMixer]_vars
    /\ WF_vars(MixBegin)
    /\ WF_vars(MixRun)
    /\ SF_vars(RemoveInactive)

InitCoord == InitBrain

\* start() runs on the main thread: each statement of _shutdown is reached
\* and returns (a put on an unbounded queue, a join with a timeout, a
\* terminate), so the shutdown's steps are taken as long as one is enabled.
SpecShutdown == InitCoord /\ [][NextCoord]_vars /\ WF_vars(Shutdown)

====
